---- MODULE Spec2Model ----
(***************************************************************************)
(* Reversible scene-graph commands of the Fyrox editor                     *)
(* (editor/src/scene/commands/graph.rs) over the engine's generational     *)
(* node pool, driven by the editor's undo/redo command stack.              *)
(*                                                                         *)
(* The commands are translated from graph.rs.  The pool, the graph, the    *)
(* animation container, the transform setters and the command stack are    *)
(* engine/editor code outside the excerpt; they are modelled from the      *)
(* contract the specification gives for them (spec.md sections 2, 4.1, 6,  *)
(* 9).                                                                     *)
(***************************************************************************)
EXTENDS Integers, Sequences, FiniteSets, TLC

VARIABLES
    scene,        \* SceneContext.scene: [graph, animations, animation_machines, panic]
    commands,     \* the command stack's history (oldest first)
    top,          \* number of history entries currently executed (the stack cursor)
    pending,      \* Option: a constructed command not yet handed to the stack
    dropped,      \* the commands discarded (and finalized) by the stack's last drop
    obs,          \* ghost, parallel to commands: what the harness observed
    dropped_obs,  \* ghost, parallel to dropped
    created,      \* ghost: number of node values ever constructed (names 1..created)
    made,         \* ghost: number of commands ever constructed
    last,         \* ghost: the operation that produced the current state
    tcmd,         \* transform harness: Option of a Move/Scale/Rotate command
    tcalls,       \* ghost: the calls made on tcmd, oldest first
    tobs,         \* ghost: field values observed by the transform harness
    log,          \* the LOG singleton: [file, verbosity, listeners]
    mutex,        \* the thread holding LOG's mutex, 0 when it is free
    threads,      \* each thread's position in its current Log call
    stdout,       \* what was written to the standard output, oldest first
    channels,     \* per listener: the LogMessages sent to it, oldest first
    log_calls,    \* ghost: the Log calls in the order they took the mutex
    disconnected, \* the listeners whose Receiver was dropped
    absm,         \* ghost: the ABSM instantiations made, oldest first
    lights,       \* the light nodes built: none, or [child, parent]
    light_calls,  \* ghost: the calls made on the lights, oldest first
    transition,   \* Option: the Transition widget of the ABSM editor
    transition_calls, \* ghost: the messages and updates the widget handled
    ui_queue,     \* the messages sent with UserInterface::send_message, not yet routed
    resources,    \* the state behind each AbsmResource: [path, absm_definition]
    instantiating \* Option: the future of an AbsmResource::instantiate call

vars == <<scene, commands, top, pending, dropped, obs, dropped_obs, created,
          made, last, tcmd, tcalls, tobs, log, mutex, threads, stdout,
          channels, log_calls, disconnected, absm, lights, light_calls, transition,
          transition_calls, ui_queue, resources, instantiating>>

(***************************************************************************)
(* Bounds of the model.                                                    *)
(***************************************************************************)
MaxNodes == 2        \* node values constructed during a run (beyond the initial scene)
MaxCommands == 2     \* commands constructed during a run
MaxModelNodes == 2   \* nodes of one imported model
MaxAnims == 1        \* animations of one imported model
MaxCalls == 4        \* calls made on one transform command
MaxEditCalls == 5    \* calls made on one command of the single-command editor
MaxLogCalls == 2     \* calls made on the logger during a run
MaxListeners == 2    \* listeners registered with the logger
MaxInstantiations == 2  \* instantiations of ABSM resources during a run
MaxAbsmAnims == 2    \* PlayAnimation nodes of one ABSM definition
MaxHistory == 3      \* commands of a history that is undone and redone
MaxDrops == 1        \* Receivers of listeners dropped during a run
MaxLightCalls == 3   \* calls made on the two lights during a run
MaxTransitionCalls == 5  \* messages and updates one Transition widget handles

(***************************************************************************)
(* Option<T> as a sequence of length 0 or 1.                               *)
(***************************************************************************)
None == <<>>
Some(x) == <<x>>
IsSome(o) == Len(o) = 1
IsNone(o) == Len(o) = 0

(***************************************************************************)
(* Handles, tickets, node values.                                          *)
(***************************************************************************)
NONE == [index |-> 0, generation |-> 0]
Root == [index |-> 1, generation |-> 1]

Vec0 == <<0, 0, 0>>
Vectors == {<<0, 0, 0>>, <<1, 2, 3>>, <<4, 5, 6>>}

NewNode(name) ==
    [name |-> name, parent |-> NONE, children |-> <<>>,
     position |-> Vec0, scale |-> Vec0, rotation |-> Vec0,
     post_rotation |-> Vec0, pre_rotation |-> Vec0,
     rotation_offset |-> Vec0, rotation_pivot |-> Vec0,
     scaling_offset |-> Vec0, scaling_pivot |-> Vec0,
     script |-> <<>>, properties |-> <<>>]

DummyNode == NewNode(0)

RECURSIVE RemoveFirst(_, _)
RemoveFirst(s, x) ==
    IF s = <<>> THEN <<>>
    ELSE IF Head(s) = x THEN Tail(s)
    ELSE <<Head(s)>> \o RemoveFirst(Tail(s), x)

Range(s) == {s[i] : i \in 1..Len(s)}

(***************************************************************************)
(* Pool<T>: records of (generation, payload) and a stack of free indices.  *)
(* A failed expectation (bad index, stale generation, vacant payload)      *)
(* panics; the panic flag of the container records it and every later      *)
(* operation leaves the container alone.                                   *)
(***************************************************************************)
EmptyPool == [pool |-> <<>>, free_stack |-> <<>>, forgotten |-> <<>>, panic |-> FALSE]

Fail(g) == [g EXCEPT !.panic = TRUE]

IsValidHandle(g, h) ==
    /\ h.index \in 1..Len(g.pool)
    /\ g.pool[h.index].generation = h.generation
    /\ IsSome(g.pool[h.index].payload)

Borrow(g, h) == g.pool[h.index].payload[1]

SetPayload(g, h, v) == [g EXCEPT !.pool[h.index].payload = Some(v)]

\* Pool::spawn: reuse the most recently freed slot with its generation raised
\* by one, else grow the pool by a record of generation 1.
PoolSpawn(g, v) ==
    IF g.panic THEN [g |-> g, handle |-> NONE]
    ELSE IF g.free_stack # <<>> THEN
        LET i == g.free_stack[Len(g.free_stack)]
            rest == SubSeq(g.free_stack, 1, Len(g.free_stack) - 1)
        IN  IF IsSome(g.pool[i].payload)
            THEN [g |-> Fail(g), handle |-> NONE]
            ELSE [g |-> [g EXCEPT !.free_stack = rest,
                                  !.pool[i] = [generation |-> @.generation + 1,
                                               payload |-> Some(v)]],
                  handle |-> [index |-> i, generation |-> g.pool[i].generation + 1]]
    ELSE [g |-> [g EXCEPT !.pool = Append(@, [generation |-> 1, payload |-> Some(v)])],
          handle |-> [index |-> Len(g.pool) + 1, generation |-> 1]]

\* A variant of take_reserve that puts the vacated slot on the free stack.
PoolTakeReserve_Free(g, h) ==
    IF g.panic \/ ~IsValidHandle(g, h)
    THEN [g |-> Fail(g), ticket |-> [index |-> 0], value |-> DummyNode]
    ELSE [g |-> [g EXCEPT !.pool[h.index].payload = None,
                          !.free_stack = Append(@, h.index)],
          ticket |-> [index |-> h.index],
          value |-> Borrow(g, h)]

\* Pool::take_reserve: vacate the slot, keep it reserved (not on the free stack).
PoolTakeReserve(g, h) ==
    IF g.panic \/ ~IsValidHandle(g, h)
    THEN [g |-> Fail(g), ticket |-> [index |-> 0], value |-> DummyNode]
    ELSE [g |-> [g EXCEPT !.pool[h.index].payload = None],
          ticket |-> [index |-> h.index],
          value |-> Borrow(g, h)]

\* Pool::put_back: the value returns to the ticket's slot; the handle is the
\* slot's index with the generation the record has now.
PoolPutBack(g, ticket, v) ==
    IF \/ g.panic
       \/ ticket.index \notin 1..Len(g.pool)
       \/ IsSome(g.pool[ticket.index].payload)
    THEN [g |-> Fail(g), handle |-> NONE]
    ELSE [g |-> [g EXCEPT !.pool[ticket.index].payload = Some(v)],
          handle |-> [index |-> ticket.index,
                      generation |-> g.pool[ticket.index].generation]]

\* Pool::forget_ticket: the slot goes on the free stack.  The forgotten value
\* is logged (ghost).
PoolForgetTicket(g, ticket, v) ==
    IF g.panic THEN g
    ELSE [g EXCEPT !.free_stack = Append(@, ticket.index),
                   !.forgotten = Append(@, v.name)]

(***************************************************************************)
(* Graph: a pool of nodes linked by parent handles and children lists.     *)
(***************************************************************************)
UnlinkInternal(g, h) ==
    IF g.panic \/ ~IsValidHandle(g, h) THEN Fail(g)
    ELSE LET p == Borrow(g, h).parent
             g1 == SetPayload(g, h, [Borrow(g, h) EXCEPT !.parent = NONE])
         IN  IF IsValidHandle(g1, p)
             THEN SetPayload(g1, p, [Borrow(g1, p) EXCEPT
                                         !.children = RemoveFirst(@, h)])
             ELSE g1

LinkNodes(g, child, parent) ==
    LET g1 == UnlinkInternal(g, child)
    IN  IF g1.panic THEN g1
        ELSE LET g2 == SetPayload(g1, child,
                                  [Borrow(g1, child) EXCEPT !.parent = parent])
             IN  IF ~IsValidHandle(g2, parent) THEN Fail(g2)
                 ELSE SetPayload(g2, parent,
                                 [Borrow(g2, parent) EXCEPT
                                      !.children = Append(@, child)])

\* Graph::add_node: spawn, then link under the scene root.
GraphAddNode(g, node) ==
    LET r == PoolSpawn(g, node)
    IN  IF r.g.panic THEN r
        ELSE [g |-> LinkNodes(r.g, r.handle, Root), handle |-> r.handle]

\* Graph::take_reserve: unlink from the parent, then vacate and reserve.
GraphTakeReserve(g, h) == PoolTakeReserve(UnlinkInternal(g, h), h)

\* Graph::put_back: back into the ticket's slot, linked under the scene root.
GraphPutBack(g, ticket, node) ==
    LET r == PoolPutBack(g, ticket, node)
    IN  IF r.g.panic THEN r
        ELSE [g |-> LinkNodes(r.g, r.handle, Root), handle |-> r.handle]

GraphForgetTicket(g, ticket, node) == PoolForgetTicket(g, ticket, node)

\* The descendants of a sub-graph are taken out of the pool without unlinking,
\* so their parent handles and children lists stay as they were.
RECURSIVE TakeDescendants(_, _, _)
TakeDescendants(g, stack, acc) ==
    IF stack = <<>> \/ g.panic THEN [g |-> g, descendants |-> acc]
    ELSE LET h == stack[Len(stack)]
             rest == SubSeq(stack, 1, Len(stack) - 1)
         IN  IF ~IsValidHandle(g, h)
             THEN [g |-> Fail(g), descendants |-> acc]
             ELSE LET r == PoolTakeReserve(g, h)
                  IN  TakeDescendants(r.g, rest \o Borrow(g, h).children,
                                      Append(acc, [ticket |-> r.ticket,
                                                   node |-> r.value]))

\* Graph::take_reserve_sub_graph
TakeReserveSubGraph(g, root) ==
    IF g.panic \/ ~IsValidHandle(g, root)
    THEN [g |-> Fail(g),
          sub_graph |-> [root |-> [ticket |-> [index |-> 0], node |-> DummyNode],
                         descendants |-> <<>>, parent |-> NONE]]
    ELSE LET parent == Borrow(g, root).parent
             d == TakeDescendants(g, Borrow(g, root).children, <<>>)
             r == GraphTakeReserve(d.g, root)
         IN  [g |-> r.g,
              sub_graph |-> [root |-> [ticket |-> r.ticket, node |-> r.value],
                             descendants |-> d.descendants,
                             parent |-> parent]]

RECURSIVE PutDescendantsBack(_, _)
PutDescendantsBack(g, ds) ==
    IF ds = <<>> THEN g
    ELSE PutDescendantsBack(PoolPutBack(g, Head(ds).ticket, Head(ds).node).g, Tail(ds))

\* Graph::put_sub_graph_back: every node returns to its own slot; the root is
\* linked under the parent recorded at extraction.
PutSubGraphBack(g, sub_graph) ==
    LET g1 == PutDescendantsBack(g, sub_graph.descendants)
        r == GraphPutBack(g1, sub_graph.root.ticket, sub_graph.root.node)
    IN  IF r.g.panic THEN r
        ELSE [g |-> LinkNodes(r.g, r.handle, sub_graph.parent), handle |-> r.handle]

RECURSIVE ForgetDescendants(_, _)
ForgetDescendants(g, ds) ==
    IF ds = <<>> THEN g
    ELSE ForgetDescendants(PoolForgetTicket(g, Head(ds).ticket, Head(ds).node), Tail(ds))

\* Graph::forget_sub_graph
ForgetSubGraph(g, sub_graph) ==
    PoolForgetTicket(ForgetDescendants(g, sub_graph.descendants),
                     sub_graph.root.ticket, sub_graph.root.node)

\* The handles of the live nodes reachable from the scene root.
RECURSIVE Reach(_, _, _)
Reach(g, frontier, seen) ==
    IF frontier = {} THEN seen
    ELSE LET next == UNION {Range(Borrow(g, h).children) : h \in frontier}
             new == {h \in next : IsValidHandle(g, h)} \ (seen \cup frontier)
         IN  Reach(g, new, seen \cup frontier)

Reachable(g) == IF IsValidHandle(g, Root) THEN Reach(g, {Root}, {}) ELSE {}

LiveHandles(g) ==
    {[index |-> i, generation |-> g.pool[i].generation] :
        i \in {j \in 1..Len(g.pool) : IsSome(g.pool[j].payload)}}

(***************************************************************************)
(* Commands (graph.rs).  A method takes the command and the scene and      *)
(* yields both after the call.  A failed unwrap or assertion panics:       *)
(* scene.panic.                                                            *)
(***************************************************************************)
Panicked(s) == s.panic \/ s.graph.panic \/ s.animations.panic

Abort(self, s) == [self |-> self, scene |-> [s EXCEPT !.panic = TRUE]]

WithGraph(s, g) == [s EXCEPT !.graph = g]

\* ---- AddNodeCommand ----------------------------------------------------
AddNodeCommandNew(node, parent) ==
    [kind |-> "AddNode",
     ticket |-> None,
     handle |-> NONE,
     cached_name |-> <<"Add Node", node.name>>,
     node |-> Some(node),
     parent |-> parent]

\* Mutant: execute ignores a held ticket and always adds the node afresh.
AddNodeExecute_AlwaysAdd(self, s) ==
    IF IsNone(self.node) THEN Abort([self EXCEPT !.ticket = None], s)
    ELSE LET r == GraphAddNode(s.graph, self.node[1])
             self1 == [self EXCEPT !.ticket = None, !.node = None, !.handle = r.handle]
         IN  IF r.g.panic
             THEN [self |-> [self EXCEPT !.ticket = None, !.node = None],
                   scene |-> WithGraph(s, r.g)]
             ELSE [self |-> self1,
                   scene |-> WithGraph(s, LinkNodes(r.g, self1.handle, self1.parent))]

AddNodeExecute(self, s) ==
    IF IsNone(self.node) THEN Abort([self EXCEPT !.ticket = None], s)
    ELSE IF IsNone(self.ticket) THEN
        \* a panic inside add_node unwinds before self.handle is assigned
        LET self1 == [self EXCEPT !.node = None]
            Added(r) ==
                IF r.g.panic THEN [self |-> self1, scene |-> WithGraph(s, r.g)]
                ELSE [self |-> [self1 EXCEPT !.handle = r.handle],
                      scene |-> WithGraph(s, LinkNodes(r.g, r.handle, self1.parent))]
        IN  Added(GraphAddNode(s.graph, self.node[1]))
    ELSE
        LET self1 == [self EXCEPT !.ticket = None, !.node = None]
            PutBack(r) ==
                IF r.g.panic THEN [self |-> self1, scene |-> WithGraph(s, r.g)]
                ELSE IF r.handle # self1.handle
                THEN Abort(self1, WithGraph(s, r.g))
                ELSE [self |-> self1,
                      scene |-> WithGraph(s, LinkNodes(r.g, self1.handle, self1.parent))]
        IN  PutBack(GraphPutBack(s.graph, self.ticket[1], self.node[1]))

\* Mutant: revert stores the ticket and loses the node.
AddNodeRevert_TicketOnly(self, s) ==
    LET r == GraphTakeReserve(s.graph, self.handle)
    IN  IF r.g.panic THEN [self |-> self, scene |-> WithGraph(s, r.g)]
        ELSE [self |-> [self EXCEPT !.ticket = Some(r.ticket)],
              scene |-> WithGraph(s, r.g)]

\* Mutant: revert stores the node and loses the ticket.
AddNodeRevert_NodeOnly(self, s) ==
    LET r == GraphTakeReserve(s.graph, self.handle)
    IN  IF r.g.panic THEN [self |-> self, scene |-> WithGraph(s, r.g)]
        ELSE [self |-> [self EXCEPT !.node = Some(r.value)],
              scene |-> WithGraph(s, r.g)]

AddNodeRevert(self, s) ==
    LET Taken(r) ==
            [self |-> IF r.g.panic THEN self
                      ELSE [self EXCEPT !.ticket = Some(r.ticket), !.node = Some(r.value)],
             scene |-> WithGraph(s, r.g)]
    IN  Taken(GraphTakeReserve(s.graph, self.handle))

\* Mutant: finalize drops the ticket and the node without forgetting the ticket.
AddNodeFinalize_DropTicket(self, s) ==
    [self |-> [self EXCEPT !.ticket = None, !.node = None], scene |-> s]

AddNodeFinalize(self, s) ==
    IF IsSome(self.ticket) THEN
        IF IsNone(self.node) THEN Abort([self EXCEPT !.ticket = None], s)
        ELSE [self |-> [self EXCEPT !.ticket = None, !.node = None],
              scene |-> WithGraph(s, GraphForgetTicket(s.graph, self.ticket[1],
                                                       self.node[1]))]
    ELSE [self |-> self, scene |-> s]

\* ---- DeleteNodeCommand -------------------------------------------------
DeleteNodeCommandNew(handle) ==
    [kind |-> "DeleteNode",
     handle |-> handle,
     ticket |-> None,
     node |-> None,
     parent |-> NONE]

DeleteNodeExecute(self, s) ==
    IF ~IsValidHandle(s.graph, self.handle) THEN Abort(self, s)
    ELSE LET self1 == [self EXCEPT !.parent = Borrow(s.graph, self.handle).parent]
             \* a panic inside take_reserve unwinds before the node is stored
             Taken(r) ==
                 [self |-> IF r.g.panic THEN self1
                           ELSE [self1 EXCEPT !.node = Some(r.value),
                                              !.ticket = Some(r.ticket)],
                  scene |-> WithGraph(s, r.g)]
         IN  Taken(GraphTakeReserve(s.graph, self.handle))

\* Mutant: revert puts the node back and keeps holding the ticket and the node.
DeleteNodeRevert_KeepNode(self, s) ==
    IF IsNone(self.ticket) THEN Abort(self, s)
    ELSE IF IsNone(self.node) THEN Abort([self EXCEPT !.ticket = None], s)
    ELSE LET r == GraphPutBack(s.graph, self.ticket[1], self.node[1])
         IN  [self |-> [self EXCEPT !.handle = r.handle],
              scene |-> WithGraph(s, LinkNodes(r.g, r.handle, self.parent))]

\* Mutant: revert puts the node back and does not link it to the recorded parent.
DeleteNodeRevert_NoLink(self, s) ==
    IF IsNone(self.ticket) THEN Abort(self, s)
    ELSE IF IsNone(self.node) THEN Abort([self EXCEPT !.ticket = None], s)
    ELSE LET r == GraphPutBack(s.graph, self.ticket[1], self.node[1])
         IN  [self |-> [self EXCEPT !.ticket = None, !.node = None,
                                    !.handle = r.handle],
              scene |-> WithGraph(s, r.g)]

DeleteNodeRevert(self, s) ==
    IF IsNone(self.ticket) THEN Abort(self, s)
    ELSE IF IsNone(self.node) THEN Abort([self EXCEPT !.ticket = None], s)
    ELSE LET r == GraphPutBack(s.graph, self.ticket[1], self.node[1])
             self1 == [self EXCEPT !.ticket = None, !.node = None,
                                   !.handle = r.handle]
         IN  IF r.g.panic THEN [self |-> [self EXCEPT !.ticket = None, !.node = None],
                                scene |-> WithGraph(s, r.g)]
             ELSE [self |-> self1,
                   scene |-> WithGraph(s, LinkNodes(r.g, self1.handle, self1.parent))]

\* Mutant: finalize forgets the ticket and keeps holding it.
DeleteNodeFinalize_KeepTicket(self, s) ==
    IF IsSome(self.ticket) THEN
        [self |-> self,
         scene |-> WithGraph(s, GraphForgetTicket(s.graph, self.ticket[1],
                                                  self.node[1]))]
    ELSE [self |-> self, scene |-> s]

DeleteNodeFinalize(self, s) ==
    IF IsSome(self.ticket) THEN
        IF IsNone(self.node) THEN Abort([self EXCEPT !.ticket = None], s)
        ELSE [self |-> [self EXCEPT !.ticket = None, !.node = None],
              scene |-> WithGraph(s, GraphForgetTicket(s.graph, self.ticket[1],
                                                       self.node[1]))]
    ELSE [self |-> self, scene |-> s]

\* ---- AddModelCommand ---------------------------------------------------
AddModelCommandNew(sub_graph, animations_container) ==
    [kind |-> "AddModel",
     model |-> NONE,
     animations |-> <<>>,
     sub_graph |-> Some(sub_graph),
     animations_container |-> animations_container]

RECURSIVE PutAnimationsBack(_, _)
PutAnimationsBack(a, container) ==
    IF container = <<>> THEN a
    ELSE PutAnimationsBack(
             PoolPutBack(a, Head(container).ticket, Head(container).animation).g,
             Tail(container))

RECURSIVE TakeReserveAnimations(_, _, _)
TakeReserveAnimations(a, handles, acc) ==
    IF handles = <<>> THEN [a |-> a, container |-> acc]
    ELSE LET r == PoolTakeReserve(a, Head(handles))
         IN  TakeReserveAnimations(r.g, Tail(handles),
                                   Append(acc, [ticket |-> r.ticket,
                                                animation |-> r.value]))

RECURSIVE ForgetAnimations(_, _)
ForgetAnimations(a, container) ==
    IF container = <<>> THEN a
    ELSE ForgetAnimations(
             PoolForgetTicket(a, Head(container).ticket, Head(container).animation),
             Tail(container))

\* Mutant: execute puts the root of the sub-graph back and drops the rest.
AddModelExecute_RootOnly(self, s) ==
    IF IsNone(self.sub_graph) THEN Abort(self, s)
    ELSE LET r == PutSubGraphBack(s.graph,
                                  [self.sub_graph[1] EXCEPT !.descendants = <<>>])
         IN  IF r.g.panic
             THEN [self |-> [self EXCEPT !.sub_graph = None],
                   scene |-> WithGraph(s, r.g)]
             ELSE [self |-> [self EXCEPT !.model = r.handle,
                                         !.sub_graph = None,
                                         !.animations_container = <<>>],
                   scene |-> [s EXCEPT !.graph = r.g,
                                       !.animations =
                                           PutAnimationsBack(@, self.animations_container)]]

AddModelExecute(self, s) ==
    IF IsNone(self.sub_graph) THEN Abort(self, s)
    ELSE LET PutBack(r) ==
                 IF r.g.panic
                 THEN [self |-> [self EXCEPT !.sub_graph = None],
                       scene |-> WithGraph(s, r.g)]
                 ELSE [self |-> [self EXCEPT !.model = r.handle,
                                             !.sub_graph = None,
                                             !.animations_container = <<>>],
                       scene |-> [s EXCEPT !.graph = r.g,
                                           !.animations =
                                               PutAnimationsBack(@, self.animations_container)]]
         IN  PutBack(PutSubGraphBack(s.graph, self.sub_graph[1]))

AddModelRevert(self, s) ==
    LET Taken(r, t) ==
            IF r.g.panic THEN [self |-> self, scene |-> WithGraph(s, r.g)]
            ELSE [self |-> [self EXCEPT !.sub_graph = Some(r.sub_graph),
                                        !.animations_container =
                                            IF t.a.panic THEN @ ELSE t.container],
                  scene |-> [s EXCEPT !.graph = r.g, !.animations = t.a]]
    IN  Taken(TakeReserveSubGraph(s.graph, self.model),
              TakeReserveAnimations(s.animations, self.animations, <<>>))

AddModelFinalize(self, s) ==
    LET g1 == IF IsSome(self.sub_graph)
              THEN ForgetSubGraph(s.graph, self.sub_graph[1])
              ELSE s.graph
    IN  [self |-> [self EXCEPT !.sub_graph = None, !.animations_container = <<>>],
         scene |-> [s EXCEPT !.graph = g1,
                             !.animations =
                                 ForgetAnimations(@, self.animations_container)]]

\* ---- DeleteSubGraphCommand ---------------------------------------------
DeleteSubGraphCommandNew(sub_graph_root) ==
    [kind |-> "DeleteSubGraph",
     sub_graph_root |-> sub_graph_root,
     sub_graph |-> None,
     parent |-> NONE]

\* Mutant: execute takes the root alone and leaves its descendants in the graph.
DeleteSubGraphExecute_RootOnly(self, s) ==
    IF ~IsValidHandle(s.graph, self.sub_graph_root) THEN Abort(self, s)
    ELSE LET parent == Borrow(s.graph, self.sub_graph_root).parent
             r == GraphTakeReserve(s.graph, self.sub_graph_root)
         IN  [self |-> [self EXCEPT !.parent = parent,
                                    !.sub_graph =
                                        Some([root |-> [ticket |-> r.ticket,
                                                        node |-> r.value],
                                              descendants |-> <<>>,
                                              parent |-> parent])],
              scene |-> WithGraph(s, r.g)]

DeleteSubGraphExecute(self, s) ==
    IF ~IsValidHandle(s.graph, self.sub_graph_root) THEN Abort(self, s)
    ELSE LET self1 == [self EXCEPT !.parent = Borrow(s.graph, self.sub_graph_root).parent]
             \* a panic inside take_reserve_sub_graph unwinds before the sub-graph is stored
             Taken(r) ==
                 [self |-> IF r.g.panic THEN self1
                           ELSE [self1 EXCEPT !.sub_graph = Some(r.sub_graph)],
                  scene |-> WithGraph(s, r.g)]
         IN  Taken(TakeReserveSubGraph(s.graph, self.sub_graph_root))

DeleteSubGraphRevert(self, s) ==
    IF IsNone(self.sub_graph) THEN Abort(self, s)
    ELSE LET r == PutSubGraphBack(s.graph, self.sub_graph[1])
         IN  [self |-> [self EXCEPT !.sub_graph = None],
              scene |-> WithGraph(s, LinkNodes(r.g, self.sub_graph_root, self.parent))]

DeleteSubGraphFinalize(self, s) ==
    IF IsSome(self.sub_graph)
    THEN [self |-> [self EXCEPT !.sub_graph = None],
          scene |-> WithGraph(s, ForgetSubGraph(s.graph, self.sub_graph[1]))]
    ELSE [self |-> self, scene |-> s]

\* ---- MoveNodeCommand / ScaleNodeCommand / RotateNodeCommand -------------
\* Transform::set_position / set_scale / set_rotation store the value given.
SetPosition(node, v) == [node EXCEPT !.position = v]
SetScale(node, v) == [node EXCEPT !.scale = v]
SetRotation(node, v) == [node EXCEPT !.rotation = v]

\* graph[self.node].local_transform_mut().set_*(value); indexing a vacated
\* handle panics.
MoveNodeSetPosition(s, h, v) ==
    IF ~IsValidHandle(s.graph, h) THEN [s EXCEPT !.panic = TRUE]
    ELSE WithGraph(s, SetPayload(s.graph, h, SetPosition(Borrow(s.graph, h), v)))

ScaleNodeSetScale(s, h, v) ==
    IF ~IsValidHandle(s.graph, h) THEN [s EXCEPT !.panic = TRUE]
    ELSE WithGraph(s, SetPayload(s.graph, h, SetScale(Borrow(s.graph, h), v)))

RotateNodeSetRotation(s, h, v) ==
    IF ~IsValidHandle(s.graph, h) THEN [s EXCEPT !.panic = TRUE]
    ELSE WithGraph(s, SetPayload(s.graph, h, SetRotation(Borrow(s.graph, h), v)))

MoveNodeCommandNew(node, old_position, new_position) ==
    [kind |-> "Move", node |-> node,
     old_position |-> old_position, new_position |-> new_position]

\* Mutant: swap hands out the old position.
MoveNodeSwap_ReturnsOld(self) ==
    [self |-> [self EXCEPT !.new_position = self.old_position,
                           !.old_position = self.new_position],
     value |-> self.old_position]

MoveNodeSwap(self) ==
    [self |-> [self EXCEPT !.new_position = self.old_position,
                           !.old_position = self.new_position],
     value |-> self.new_position]

MoveNodeExecute(self, s) ==
    LET w == MoveNodeSwap(self)
    IN  [self |-> w.self, scene |-> MoveNodeSetPosition(s, w.self.node, w.value)]

\* Mutant: revert stores the old position and leaves the command as it is.
MoveNodeRevert_SetsOld(self, s) ==
    [self |-> self, scene |-> MoveNodeSetPosition(s, self.node, self.old_position)]

MoveNodeRevert(self, s) ==
    LET w == MoveNodeSwap(self)
    IN  [self |-> w.self, scene |-> MoveNodeSetPosition(s, w.self.node, w.value)]

ScaleNodeCommandNew(node, old_scale, new_scale) ==
    [kind |-> "Scale", node |-> node, old_scale |-> old_scale, new_scale |-> new_scale]

\* Mutant: swap hands out the new scale and leaves the fields as they are.
ScaleNodeSwap_NoSwap(self) == [self |-> self, value |-> self.new_scale]

ScaleNodeSwap(self) ==
    [self |-> [self EXCEPT !.new_scale = self.old_scale, !.old_scale = self.new_scale],
     value |-> self.new_scale]

ScaleNodeExecute(self, s) ==
    LET w == ScaleNodeSwap(self)
    IN  [self |-> w.self, scene |-> ScaleNodeSetScale(s, w.self.node, w.value)]

ScaleNodeRevert(self, s) ==
    LET w == ScaleNodeSwap(self)
    IN  [self |-> w.self, scene |-> ScaleNodeSetScale(s, w.self.node, w.value)]

RotateNodeCommandNew(node, old_rotation, new_rotation) ==
    [kind |-> "Rotate", node |-> node,
     old_rotation |-> old_rotation, new_rotation |-> new_rotation]

RotateNodeSwap(self) ==
    [self |-> [self EXCEPT !.new_rotation = self.old_rotation,
                           !.old_rotation = self.new_rotation],
     value |-> self.new_rotation]

RotateNodeExecute(self, s) ==
    LET w == RotateNodeSwap(self)
    IN  [self |-> w.self, scene |-> RotateNodeSetRotation(s, w.self.node, w.value)]

RotateNodeRevert(self, s) ==
    LET w == RotateNodeSwap(self)
    IN  [self |-> w.self, scene |-> RotateNodeSetRotation(s, w.self.node, w.value)]

\* ---- LinkNodesCommand ---------------------------------------------------
LinkNodesCommandNew(child, parent) == [kind |-> "Link", child |-> child, parent |-> parent]

\* Mutant: link re-parents the child and keeps its target as it is.
LinkNodesLink_KeepTarget(self, s) ==
    IF ~IsValidHandle(s.graph, self.child) THEN Abort(self, s)
    ELSE LET g == LinkNodes(s.graph, self.child, self.parent)
         IN  [self |-> self, scene |-> WithGraph(s, g)]

LinkNodesLink(self, s) ==
    IF ~IsValidHandle(s.graph, self.child) THEN Abort(self, s)
    ELSE LET old_parent == Borrow(s.graph, self.child).parent
             g == LinkNodes(s.graph, self.child, self.parent)
         IN  IF g.panic THEN [self |-> self, scene |-> WithGraph(s, g)]
             ELSE [self |-> [self EXCEPT !.parent = old_parent],
                   scene |-> WithGraph(s, g)]

LinkNodesExecute(self, s) == LinkNodesLink(self, s)

\* Mutant: revert leaves the child where execute put it.
LinkNodesRevert_Skip(self, s) == [self |-> self, scene |-> s]

LinkNodesRevert(self, s) == LinkNodesLink(self, s)

\* ---- SetPropertyValueCommand / SetPropertyNameCommand --------------------
\* A property is a [name, value] pair; the index is zero-based as in the code.
InBounds(properties, index) == index + 1 \in 1..Len(properties)

SetPropertyValueCommandNew(handle, index, value) ==
    [kind |-> "SetPropertyValue", handle |-> handle, index |-> index, value |-> value]

\* Mutant: the command's value is stored on the node and not exchanged.
SetPropertyValueSwap_Overwrite(self, s) ==
    IF ~IsValidHandle(s.graph, self.handle) THEN Abort(self, s)
    ELSE LET node == Borrow(s.graph, self.handle)
         IN  IF ~InBounds(node.properties, self.index) THEN Abort(self, s)
             ELSE [self |-> self,
                   scene |-> WithGraph(s, SetPayload(s.graph, self.handle,
                       [node EXCEPT !.properties[self.index + 1].value = self.value]))]

SetPropertyValueSwap(self, s) ==
    IF ~IsValidHandle(s.graph, self.handle) THEN Abort(self, s)
    ELSE LET node == Borrow(s.graph, self.handle)
         IN  IF ~InBounds(node.properties, self.index) THEN Abort(self, s)
             ELSE [self |-> [self EXCEPT !.value = node.properties[self.index + 1].value],
                   scene |-> WithGraph(s, SetPayload(s.graph, self.handle,
                       [node EXCEPT !.properties[self.index + 1].value = self.value]))]

SetPropertyValueExecute(self, s) == SetPropertyValueSwap(self, s)

SetPropertyValueRevert(self, s) == SetPropertyValueSwap(self, s)

SetPropertyNameCommandNew(handle, index, name) ==
    [kind |-> "SetPropertyName", handle |-> handle, index |-> index, name |-> name]

SetPropertyNameSwap(self, s) ==
    IF ~IsValidHandle(s.graph, self.handle) THEN Abort(self, s)
    ELSE LET node == Borrow(s.graph, self.handle)
         IN  IF ~InBounds(node.properties, self.index) THEN Abort(self, s)
             ELSE [self |-> [self EXCEPT !.name = node.properties[self.index + 1].name],
                   scene |-> WithGraph(s, SetPayload(s.graph, self.handle,
                       [node EXCEPT !.properties[self.index + 1].name = self.name]))]

SetPropertyNameExecute(self, s) == SetPropertyNameSwap(self, s)

SetPropertyNameRevert(self, s) == SetPropertyNameSwap(self, s)

\* ---- AddPropertyCommand / RemovePropertyCommand ---------------------------
\* Made by define_vec_add_remove_commands! over the properties of the node
\* of the handle.  The macro is editor code outside the excerpt: add pushes
\* the value (leaving the default in the command) and pops it back, remove
\* takes the value at the index and inserts it back; the label is the name
\* of the struct.
PropertyDefault == [name |-> "", value |-> 0]

AddPropertyCommandNew(handle, value) ==
    [kind |-> "AddProperty", handle |-> handle, value |-> value]

AddPropertyExecute(self, s) ==
    IF ~IsValidHandle(s.graph, self.handle) THEN Abort(self, s)
    ELSE LET node == Borrow(s.graph, self.handle)
         IN  [self |-> [self EXCEPT !.value = PropertyDefault],
              scene |-> WithGraph(s, SetPayload(s.graph, self.handle,
                  [node EXCEPT !.properties = Append(@, self.value)]))]

AddPropertyRevert(self, s) ==
    IF ~IsValidHandle(s.graph, self.handle) THEN Abort(self, s)
    ELSE LET node == Borrow(s.graph, self.handle)
             n == Len(node.properties)
         IN  IF n = 0 THEN Abort(self, s)
             ELSE [self |-> [self EXCEPT !.value = node.properties[n]],
                   scene |-> WithGraph(s, SetPayload(s.graph, self.handle,
                       [node EXCEPT !.properties = SubSeq(@, 1, n - 1)]))]

RemovePropertyCommandNew(handle, index) ==
    [kind |-> "RemoveProperty", handle |-> handle, index |-> index, value |-> None]

RemovePropertyExecute(self, s) ==
    IF ~IsValidHandle(s.graph, self.handle) THEN Abort(self, s)
    ELSE LET node == Borrow(s.graph, self.handle)
             n == Len(node.properties)
         IN  IF ~InBounds(node.properties, self.index) THEN Abort(self, s)
             ELSE [self |-> [self EXCEPT !.value = Some(node.properties[self.index + 1])],
                   scene |-> WithGraph(s, SetPayload(s.graph, self.handle,
                       [node EXCEPT !.properties =
                            SubSeq(@, 1, self.index) \o SubSeq(@, self.index + 2, n)]))]

\* The value is taken out of the command before Vec::insert checks the index.
RemovePropertyRevert(self, s) ==
    IF ~IsValidHandle(s.graph, self.handle) \/ IsNone(self.value) THEN Abort(self, s)
    ELSE LET node == Borrow(s.graph, self.handle)
             n == Len(node.properties)
             self1 == [self EXCEPT !.value = None]
         IN  IF self.index > n THEN Abort(self1, s)
             ELSE [self |-> self1,
                   scene |-> WithGraph(s, SetPayload(s.graph, self.handle,
                       [node EXCEPT !.properties =
                            SubSeq(@, 1, self.index) \o self.value
                                \o SubSeq(@, self.index + 1, n)]))]

\* ---- Commands made by define_node_command! --------------------------------
\* Each is [kind, handle, value] with the swap body given in graph.rs; the
\* macro makes execute and revert call swap on the node of the handle.  The
\* getters and setters of the local transform read and store the field.
NodeCommandKinds ==
    {"SetPostRotation", "SetPreRotation", "SetRotationOffset", "SetRotationPivot",
     "SetScaleOffset", "SetScalePivot"}

NodeCommandNew(kind, handle, value) ==
    [kind |-> kind, handle |-> handle, value |-> value]

\* Mutant: the value goes to the node and the node's old value is dropped.
SwapNodeField_KeepValue(self, s, field) ==
    IF ~IsValidHandle(s.graph, self.handle) THEN Abort(self, s)
    ELSE LET node == Borrow(s.graph, self.handle)
         IN  [self |-> self,
              scene |-> WithGraph(s, SetPayload(s.graph, self.handle,
                                                [node EXCEPT ![field] = self.value]))]

\* let temp = field; set_field(self.value); self.value = temp;
SwapNodeField(self, s, field) ==
    IF ~IsValidHandle(s.graph, self.handle) THEN Abort(self, s)
    ELSE LET node == Borrow(s.graph, self.handle)
             temp == node[field]
         IN  [self |-> [self EXCEPT !.value = temp],
              scene |-> WithGraph(s, SetPayload(s.graph, self.handle,
                                                [node EXCEPT ![field] = self.value]))]

SetPostRotationSwap(self, s) == SwapNodeField(self, s, "post_rotation")

SetPreRotationSwap(self, s) == SwapNodeField(self, s, "pre_rotation")

SetRotationOffsetSwap(self, s) == SwapNodeField(self, s, "rotation_offset")

SetRotationPivotSwap(self, s) == SwapNodeField(self, s, "rotation_pivot")

SetScaleOffsetSwap(self, s) == SwapNodeField(self, s, "scaling_offset")

SetScalePivotSwap(self, s) == SwapNodeField(self, s, "scaling_pivot")

NodeCommandSwap(self, s) ==
    CASE self.kind = "SetPostRotation" -> SetPostRotationSwap(self, s)
      [] self.kind = "SetPreRotation" -> SetPreRotationSwap(self, s)
      [] self.kind = "SetRotationOffset" -> SetRotationOffsetSwap(self, s)
      [] self.kind = "SetRotationPivot" -> SetRotationPivotSwap(self, s)
      [] self.kind = "SetScaleOffset" -> SetScaleOffsetSwap(self, s)
      [] self.kind = "SetScalePivot" -> SetScalePivotSwap(self, s)

\* ---- SetNameCommand, made by define_swap_command! -------------------------
\* The macro is editor code outside the excerpt: swap reads the field with
\* the getter (name_owned), stores the command's value with the setter
\* (set_name) and keeps the old value in the command.
SetNameCommandNew(handle, value) ==
    [kind |-> "SetName", handle |-> handle, value |-> value]

SetNameSwap(self, s) == SwapNodeField(self, s, "name")

NodeCommandExecute(self, s) == NodeCommandSwap(self, s)

NodeCommandRevert(self, s) == NodeCommandSwap(self, s)

NodeCommandLabel(kind) ==
    CASE kind = "SetPostRotation" -> "Set Post Rotation"
      [] kind = "SetPreRotation" -> "Set Pre Rotation"
      [] kind = "SetRotationOffset" -> "Set Rotation Offset"
      [] kind = "SetRotationPivot" -> "Set Rotation Pivot"
      [] kind = "SetScaleOffset" -> "Set Scaling Offset"
      [] kind = "SetScalePivot" -> "Set Scaling Pivot"

\* ---- Scripts and their serialized form ----------------------------------
\* A live script has a type (uuid), its data, and resource references that
\* are resolved or not.  The serialized form keeps the type and the data; a
\* script read back from bytes is a new object whose resource references are
\* unresolved until restore_resources has run on it.
NilUuid == 0

NewScript(uuid, data) == [uuid |-> uuid, data |-> data, resources |-> "resolved"]

\* visit_opt_script on a writing visitor, then save_binary_to_memory.
SaveOptScript(script) ==
    IF IsNone(script) THEN <<NilUuid>> ELSE <<script[1].uuid, script[1].data>>

\* Visitor::load_from_memory, then visit_opt_script on the reading visitor.
LoadOptScript(data) ==
    IF data[1] = NilUuid THEN None
    ELSE Some([uuid |-> data[1], data |-> data[2], resources |-> "unresolved"])

\* deserialize_script: Err for a type the serialization context cannot create.
DeserializeScript(data) == LoadOptScript(data)

RestoreResources(script) == [script EXCEPT !.resources = "resolved"]

\* ---- SetScriptCommand ----------------------------------------------------
\* SetScriptCommandState: the tag, and the payload of the tagged variant.
StateNonExecuted(script) == [tag |-> "NonExecuted", script |-> script, data |-> <<>>]
StateExecuted == [tag |-> "Executed", script |-> None, data |-> <<>>]
StateReverted(data) == [tag |-> "Reverted", script |-> None, data |-> data]
StateUndefined == [tag |-> "Undefined", script |-> None, data |-> <<>>]

SetScriptCommandNew(handle, script) ==
    [kind |-> "SetScript", handle |-> handle, state |-> StateNonExecuted(script)]

SetNodeScript(s, h, script) ==
    WithGraph(s, SetPayload(s.graph, h, [Borrow(s.graph, h) EXCEPT !.script = script]))

\* Mutant: execute accepts every state and leaves the node alone in those
\* the code rejects.
SetScriptExecute_Lenient(self, s) ==
    IF ~IsValidHandle(s.graph, self.handle) THEN Abort(self, s)
    ELSE LET self1 == [self EXCEPT !.state = StateExecuted]
         IN  CASE self.state.tag = "NonExecuted" ->
                      [self |-> self1, scene |-> SetNodeScript(s, self.handle, self.state.script)]
               [] self.state.tag = "Reverted" ->
                      [self |-> self1,
                       scene |-> SetNodeScript(s, self.handle, LoadOptScript(self.state.data))]
               [] OTHER -> [self |-> self1, scene |-> s]

SetScriptExecute(self, s) ==
    IF ~IsValidHandle(s.graph, self.handle) THEN Abort(self, s)
    ELSE LET self1 == [self EXCEPT !.state = StateExecuted]
         IN  CASE self.state.tag = "NonExecuted" ->
                      [self |-> self1, scene |-> SetNodeScript(s, self.handle, self.state.script)]
               [] self.state.tag = "Reverted" ->
                      [self |-> self1,
                       scene |-> SetNodeScript(s, self.handle, LoadOptScript(self.state.data))]
               [] OTHER -> Abort(self1, s)

\* Mutant: revert takes the script off the node and stores the bytes of no
\* script.
SetScriptRevert_NoSerialize(self, s) ==
    IF ~IsValidHandle(s.graph, self.handle) THEN Abort(self, s)
    ELSE IF self.state.tag = "Executed"
         THEN [self |-> [self EXCEPT !.state = StateReverted(SaveOptScript(None))],
               scene |-> SetNodeScript(s, self.handle, None)]
         ELSE Abort([self EXCEPT !.state = StateUndefined], s)

\* Mutant: revert serializes the script and leaves the state it put in place.
SetScriptRevert_LeavesUndefined(self, s) ==
    IF ~IsValidHandle(s.graph, self.handle) THEN Abort(self, s)
    ELSE IF self.state.tag = "Executed"
         THEN [self |-> [self EXCEPT !.state = StateUndefined],
               scene |-> SetNodeScript(s, self.handle, None)]
         ELSE Abort([self EXCEPT !.state = StateUndefined], s)

SetScriptRevert(self, s) ==
    IF ~IsValidHandle(s.graph, self.handle) THEN Abort(self, s)
    ELSE IF self.state.tag = "Executed"
         THEN LET script == Borrow(s.graph, self.handle).script
              IN  [self |-> [self EXCEPT !.state = StateReverted(SaveOptScript(script))],
                   scene |-> SetNodeScript(s, self.handle, None)]
         ELSE Abort([self EXCEPT !.state = StateUndefined], s)

\* ---- ScriptDataBlobCommand -----------------------------------------------
ScriptDataBlobCommandNew(handle, old_value, new_value) ==
    [kind |-> "ScriptDataBlob", handle |-> handle,
     old_value |-> old_value, new_value |-> new_value]

\* Mutant: swap deserializes the old bytes.
ScriptDataBlobSwap_UsesOld(self, s) ==
    LET data == self.old_value
        self1 == [self EXCEPT !.old_value = self.new_value, !.new_value = self.old_value]
    IN  IF ~IsValidHandle(s.graph, self.handle) THEN Abort(self1, s)
        ELSE IF IsNone(Borrow(s.graph, self.handle).script) THEN Abort(self1, s)
        ELSE LET script == DeserializeScript(data)
             IN  IF IsNone(script) THEN Abort(self1, s)
                 ELSE [self |-> self1,
                       scene |-> SetNodeScript(s, self.handle,
                                               Some(RestoreResources(script[1])))]

ScriptDataBlobSwap(self, s) ==
    LET data == self.new_value
        self1 == [self EXCEPT !.old_value = self.new_value, !.new_value = self.old_value]
    IN  IF ~IsValidHandle(s.graph, self.handle) THEN Abort(self1, s)
        ELSE IF IsNone(Borrow(s.graph, self.handle).script) THEN Abort(self1, s)
        ELSE LET script == DeserializeScript(data)
             IN  IF IsNone(script) THEN Abort(self1, s)
                 ELSE [self |-> self1,
                       scene |-> SetNodeScript(s, self.handle,
                                               Some(RestoreResources(script[1])))]

ScriptDataBlobExecute(self, s) == ScriptDataBlobSwap(self, s)

ScriptDataBlobRevert(self, s) == ScriptDataBlobSwap(self, s)

\* ---- dyn Command dispatch ----------------------------------------------
Execute(self, s) ==
    CASE self.kind = "AddNode" -> AddNodeExecute(self, s)
      [] self.kind = "DeleteNode" -> DeleteNodeExecute(self, s)
      [] self.kind = "AddModel" -> AddModelExecute(self, s)
      [] self.kind = "DeleteSubGraph" -> DeleteSubGraphExecute(self, s)
      [] self.kind = "Move" -> MoveNodeExecute(self, s)
      [] self.kind = "Scale" -> ScaleNodeExecute(self, s)
      [] self.kind = "Rotate" -> RotateNodeExecute(self, s)
      [] self.kind = "Link" -> LinkNodesExecute(self, s)
      [] self.kind = "SetPropertyValue" -> SetPropertyValueExecute(self, s)
      [] self.kind = "SetPropertyName" -> SetPropertyNameExecute(self, s)
      [] self.kind = "AddProperty" -> AddPropertyExecute(self, s)
      [] self.kind = "RemoveProperty" -> RemovePropertyExecute(self, s)
      [] self.kind = "SetName" -> SetNameSwap(self, s)
      [] self.kind = "SetScript" -> SetScriptExecute(self, s)
      [] self.kind = "ScriptDataBlob" -> ScriptDataBlobExecute(self, s)
      [] self.kind \in NodeCommandKinds -> NodeCommandExecute(self, s)

Revert(self, s) ==
    CASE self.kind = "AddNode" -> AddNodeRevert(self, s)
      [] self.kind = "DeleteNode" -> DeleteNodeRevert(self, s)
      [] self.kind = "AddModel" -> AddModelRevert(self, s)
      [] self.kind = "DeleteSubGraph" -> DeleteSubGraphRevert(self, s)
      [] self.kind = "Move" -> MoveNodeRevert(self, s)
      [] self.kind = "Scale" -> ScaleNodeRevert(self, s)
      [] self.kind = "Rotate" -> RotateNodeRevert(self, s)
      [] self.kind = "Link" -> LinkNodesRevert(self, s)
      [] self.kind = "SetPropertyValue" -> SetPropertyValueRevert(self, s)
      [] self.kind = "SetPropertyName" -> SetPropertyNameRevert(self, s)
      [] self.kind = "AddProperty" -> AddPropertyRevert(self, s)
      [] self.kind = "RemoveProperty" -> RemovePropertyRevert(self, s)
      [] self.kind = "SetName" -> SetNameSwap(self, s)
      [] self.kind = "SetScript" -> SetScriptRevert(self, s)
      [] self.kind = "ScriptDataBlob" -> ScriptDataBlobRevert(self, s)
      [] self.kind \in NodeCommandKinds -> NodeCommandRevert(self, s)

Finalize(self, s) ==
    CASE self.kind = "AddNode" -> AddNodeFinalize(self, s)
      [] self.kind = "DeleteNode" -> DeleteNodeFinalize(self, s)
      [] self.kind = "AddModel" -> AddModelFinalize(self, s)
      [] self.kind = "DeleteSubGraph" -> DeleteSubGraphFinalize(self, s)
      [] OTHER -> [self |-> self, scene |-> s]

\* Command::name: the label, with the command and the scene after the call.
\* Mutant: the label of AddNodeCommand is read from the node the command holds.
AddNodeName_FromNode(self, s) ==
    [self |-> self, scene |-> s,
     label |-> IF IsSome(self.node) THEN <<"Add Node", self.node[1].name>>
               ELSE <<"Add Node", DummyNode.name>>]

AddNodeName(self, s) == [self |-> self, scene |-> s, label |-> self.cached_name]

ConstName(self, s, label) == [self |-> self, scene |-> s, label |-> <<label>>]

Name(self, s) ==
    CASE self.kind = "AddNode" -> AddNodeName(self, s)
      [] self.kind = "DeleteNode" -> ConstName(self, s, "Delete Node")
      [] self.kind = "AddModel" -> ConstName(self, s, "Load Model")
      [] self.kind = "DeleteSubGraph" -> ConstName(self, s, "Delete Sub Graph")
      [] self.kind = "Move" -> ConstName(self, s, "Move Node")
      [] self.kind = "Scale" -> ConstName(self, s, "Scale Node")
      [] self.kind = "Rotate" -> ConstName(self, s, "Rotate Node")
      [] self.kind = "Link" -> ConstName(self, s, "Link Nodes")
      [] self.kind = "SetPropertyValue" -> ConstName(self, s, "Set Property Value")
      [] self.kind = "SetPropertyName" -> ConstName(self, s, "Set Property Name")
      [] self.kind = "AddProperty" -> ConstName(self, s, "AddPropertyCommand")
      [] self.kind = "RemoveProperty" -> ConstName(self, s, "RemovePropertyCommand")
      [] self.kind = "SetName" -> ConstName(self, s, "Set Name")
      [] self.kind = "SetScript" -> ConstName(self, s, "Set Script Command")
      [] self.kind = "ScriptDataBlob" -> ConstName(self, s, "Change Script Property")
      [] self.kind \in NodeCommandKinds -> ConstName(self, s, NodeCommandLabel(self.kind))

(***************************************************************************)
(* The logger (src/utils/log.rs): one process-wide Log behind a mutex.     *)
(* A String is a sequence of pieces, so that push and insert_str are       *)
(* operations on it.  The time field of a LogMessage is a clock reading    *)
(* and is left out of the model.                                           *)
(***************************************************************************)
Information == 0
Warning == 1
Error == 2
MessageKinds == {Information, Warning, Error}

AsStr(kind) ==
    CASE kind = Information -> "[INFO]: "
      [] kind = Warning -> "[WARNING]: "
      [] kind = Error -> "[ERROR]: "

\* The texts callers pass: the n-th call of a run passes Texts[n].
Texts == <<"m1", "m2", "m3", "m4", "m5", "m6">>
Threads == {1, 2}
Senders == 1 .. MaxListeners

\* LOG as lazy_static builds it.
NewLog == [file |-> <<>>, verbosity |-> Information, listeners |-> <<>>]

\* A variant whose content carries the kind prefix.
LogMessage_Prefixed(kind, content) ==
    [kind |-> kind, content |-> <<AsStr(kind)>> \o content]

LogMessage(kind, content) == [kind |-> kind, content |-> content]

\* self.listeners.push(listener)
PushListener(listeners, listener) == Append(listeners, listener)

\* A variant of the fan-out loop that stops at the first failed send.
FanOutNext_StopOnErr(i, n, ok) == IF ok THEN i + 1 ELSE n + 1

\* write_internal's loop `for listener in .. { let _ = listener.send(..); }`:
\* after the i-th of n listeners comes the next one, whatever send returned.
FanOutNext(i, n, ok) == i + 1

\* listener.send(..): the message is queued on the listener's channel, or
\* handed back in an Err when the Receiver of the channel was dropped.
Send(ch, closed, listener, message) ==
    IF listener \in closed
    THEN [ch |-> ch, ok |-> FALSE]
    ELSE [ch |-> [ch EXCEPT ![listener] = Append(@, message)], ok |-> TRUE]

\* A variant that accepts every kind.
Accepts_Always(kind, verbosity) == TRUE

\* write_internal's acceptance test.
Accepts(kind, verbosity) == kind >= verbosity

\* The String write_internal receives from each entry point.
PushNewline(msg) == Append(msg, "\n")
InsertPrefix(kind, msg) == <<AsStr(kind)>> \o msg

\* format!("Operation failed! Reason: {:?}", e) for an error e that is a
\* string: Debug formatting quotes it.
FormatDebug(e) == <<"\"", e, "\"">>
VerifyMessage(e) == <<"Operation failed! Reason: ">> \o FormatDebug(e)

WriteOps == {"write", "writeln", "info", "warn", "err", "verify"}

\* A variant in which verify logs a warning.
KindOf_VerifyWarns(op, kind) ==
    CASE op = "info" -> Information
      [] op = "warn" -> Warning
      [] op = "err" -> Error
      [] op = "verify" -> Warning
      [] OTHER -> kind

\* The kind and the String a call hands to write_internal.
KindOf(op, kind) ==
    CASE op = "info" -> Information
      [] op = "warn" -> Warning
      [] op \in {"err", "verify"} -> Error
      [] OTHER -> kind

InternalMsg(op, msg) ==
    IF op = "write" THEN msg
    ELSE IF op = "verify" THEN PushNewline(VerifyMessage(msg[1]))
    ELSE PushNewline(msg)

IdleThread == [pc |-> "idle", op |-> "", kind |-> Information, msg |-> <<>>, i |-> 0, call |-> 0]

\* A variant of the mutex that never makes a caller wait.
MutexFree_NoWait(m) == TRUE

\* Mutex::lock: the caller proceeds only when no thread holds the mutex.

MutexFree(m) == m = 0

\* The AbsmResource handles of a run; a clone of a handle shares its state.
ResourceIds == {"r1", "r2"}

\* AbsmResourceState::default for every resource
LoadedResources == [id \in ResourceIds |-> [path |-> "", absm_definition |-> <<>>]]

EngineIdle ==
    /\ log = NewLog
    /\ mutex = 0
    /\ threads = [t \in Threads |-> IdleThread]
    /\ stdout = <<>>
    /\ channels = [l \in Senders |-> <<>>]
    /\ log_calls = <<>>
    /\ disconnected = {}
    /\ absm = <<>>
    /\ lights = <<>>
    /\ light_calls = <<>>
    /\ transition = <<>>
    /\ transition_calls = <<>>
    /\ ui_queue = <<>>
    /\ resources = LoadedResources
    /\ instantiating = <<>>

LogVars == <<log, mutex, threads, stdout, channels, log_calls, disconnected>>
UiVars == <<lights, light_calls, transition, transition_calls, ui_queue>>
AbsmVars == <<resources, instantiating>>
LogRest == <<disconnected, lights, light_calls, transition, transition_calls,
             ui_queue, resources, instantiating>>
EngineVarsUnchanged ==
    UNCHANGED <<log, mutex, threads, stdout, channels, log_calls, disconnected, absm, lights,
                light_calls, transition, transition_calls, ui_queue, resources,
                instantiating>>

(***************************************************************************)
(* The editor around the commands.  A command is constructed from what the *)
(* user picked in the scene (pending), then handed to the command stack.   *)
(* The stack executes it and pushes it on the history, after finalizing    *)
(* and dropping the reverted commands above the cursor; undo reverts the   *)
(* command at the cursor, redo executes the one above it, clear finalizes  *)
(* and drops the whole history.                                            *)
(***************************************************************************)
EmptyScene ==
    [graph |-> PoolSpawn(EmptyPool, NewNode(0)).g,
     animations |-> EmptyPool,
     animation_machines |-> EmptyPool,
     panic |-> FALSE]

\* What the harness notes about a command: the constructor's handle argument
\* (arg), the name of the node it is about, the graph just before its latest
\* execute, its handle after its first execute (h0), whether other nodes were
\* added or removed while it was reverted (churn), and for a model the handles
\* of its nodes (as a set, and as the chain from the model's root down) and
\* of its animations.
NoObs ==
    [arg |-> NONE, name |-> 0, before |-> EmptyPool, h0 |-> NONE, churn |-> FALSE,
     nodes |-> {}, chain |-> <<>>, anims |-> <<>>]

\* Model import: the model's nodes (a chain of n) and k animations are
\* instantiated in the scene, then extracted again for the command.
RECURSIVE InstantiateChain(_, _, _, _, _)
InstantiateChain(g, under, name, n, acc) ==
    IF n = 0 THEN [g |-> g, handles |-> acc]
    ELSE LET r == GraphAddNode(g, NewNode(name))
         IN  InstantiateChain(LinkNodes(r.g, r.handle, under), r.handle,
                              name + 1, n - 1, Append(acc, r.handle))

RECURSIVE SpawnAnimations(_, _, _, _)
SpawnAnimations(a, model, k, acc) ==
    IF k = 0 THEN [a |-> a, handles |-> acc]
    ELSE LET r == PoolSpawn(a, [name |-> <<model, k>>])
         IN  SpawnAnimations(r.g, model, k - 1, Append(acc, r.handle))

LoadModel(s, name, n, k) ==
    LET inst == InstantiateChain(s.graph, Root, name, n, <<>>)
        anim == SpawnAnimations(s.animations, name, k, <<>>)
        sub == TakeReserveSubGraph(inst.g, inst.handles[1])
        cont == TakeReserveAnimations(anim.a, anim.handles, <<>>)
    IN  [scene |-> [s EXCEPT !.graph = sub.g, !.animations = cont.a],
         command |-> AddModelCommandNew(sub.sub_graph, cont.container),
         nodes |-> Range(inst.handles),
         chain |-> inst.handles,
         anims |-> anim.handles]

\* The stack drains commands: each is finalized in turn.  noted[i] is what the
\* harness saw of the i-th call: the node names it forgot, and whether it left
\* the scene as it was.
RECURSIVE FinalizeAll(_, _, _, _)
FinalizeAll(cmds, s, acc, noted) ==
    IF cmds = <<>> THEN [commands |-> acc, scene |-> s, noted |-> noted]
    ELSE LET r == Finalize(Head(cmds), s)
             n == [forgot |-> SubSeq(r.scene.graph.forgotten,
                                     Len(s.graph.forgotten) + 1,
                                     Len(r.scene.graph.forgotten)),
                   unchanged |-> (r.scene = s)]
         IN  FinalizeAll(Tail(cmds), r.scene, Append(acc, r.self), Append(noted, n))

DroppedObs(o, was, n) ==
    [obs |-> o, was |-> was, forgot |-> n.forgot, unchanged |-> n.unchanged,
     again |-> "none"]

Churned(os, from) ==
    [i \in 1..Len(os) |-> IF i >= from THEN [os[i] EXCEPT !.churn = TRUE] ELSE os[i]]

\* What the harness notes when command c, observed as o, is executed on graph g.
Observe(c, o, g, after) ==
    [o EXCEPT !.before = g,
              !.h0 = IF @ # NONE THEN @
                     ELSE IF c.kind \in {"AddNode", "DeleteNode"} THEN after.handle
                     ELSE IF c.kind = "AddModel" THEN after.model
                     ELSE after.sub_graph_root]

WasPhase(i) == IF i <= top THEN "executed" ELSE "reverted"

Init ==
    /\ scene = EmptyScene
    /\ commands = <<>>
    /\ top = 0
    /\ pending = None
    /\ dropped = <<>>
    /\ obs = <<>>
    /\ dropped_obs = <<>>
    /\ created = 0
    /\ made = 0
    /\ last = [op |-> "init", idx |-> 0]
    /\ tcmd = None
    /\ tcalls = <<>>
    /\ tobs = <<>>
    /\ EngineIdle

Idle == ~Panicked(scene) /\ IsNone(pending)

TVarsUnchanged == UNCHANGED <<tcmd, tcalls, tobs>> /\ EngineVarsUnchanged

NewAddNode ==
    /\ Idle
    /\ created < MaxNodes
    /\ made < MaxCommands
    /\ made' = made + 1
    /\ \E parent \in Reachable(scene.graph) :
           pending' = Some([cmd |-> AddNodeCommandNew(NewNode(created + 1), parent),
                            obs |-> [NoObs EXCEPT !.name = created + 1, !.arg = parent]])
    /\ created' = created + 1
    /\ last' = [op |-> "new", idx |-> 0]
    /\ dropped' = <<>>
    /\ dropped_obs' = <<>>
    /\ UNCHANGED <<scene, commands, top, obs>>
    /\ TVarsUnchanged

NewDeleteNode ==
    /\ Idle
    /\ made < MaxCommands
    /\ made' = made + 1
    /\ \E h \in Reachable(scene.graph) \ {Root} :
           pending' = Some([cmd |-> DeleteNodeCommandNew(h),
                            obs |-> [NoObs EXCEPT !.name = Borrow(scene.graph, h).name, !.arg = h]])
    /\ last' = [op |-> "new", idx |-> 0]
    /\ dropped' = <<>>
    /\ dropped_obs' = <<>>
    /\ UNCHANGED <<scene, commands, top, obs, created>>
    /\ TVarsUnchanged

NewDeleteSubGraph ==
    /\ Idle
    /\ made < MaxCommands
    /\ made' = made + 1
    /\ \E h \in Reachable(scene.graph) \ {Root} :
           pending' = Some([cmd |-> DeleteSubGraphCommandNew(h),
                            obs |-> [NoObs EXCEPT !.name = Borrow(scene.graph, h).name, !.arg = h]])
    /\ last' = [op |-> "new", idx |-> 0]
    /\ dropped' = <<>>
    /\ dropped_obs' = <<>>
    /\ UNCHANGED <<scene, commands, top, obs, created>>
    /\ TVarsUnchanged

NewAddModel ==
    /\ Idle
    /\ made < MaxCommands
    /\ made' = made + 1
    /\ \E n \in 1..MaxModelNodes, k \in 1..MaxAnims :
           /\ created + n <= MaxNodes
           /\ LET m == LoadModel(scene, created + 1, n, k)
              IN  /\ scene' = m.scene
                  /\ pending' = Some([cmd |-> m.command,
                                      obs |-> [NoObs EXCEPT !.name = created + 1,
                                                            !.nodes = m.nodes,
                                                            !.chain = m.chain,
                                                            !.anims = m.anims]])
           /\ created' = created + n
    /\ last' = [op |-> "new", idx |-> 0]
    /\ dropped' = <<>>
    /\ dropped_obs' = <<>>
    /\ UNCHANGED <<commands, top, obs>>
    /\ TVarsUnchanged

\* CommandStack::do_command
DoCommand ==
    /\ ~Panicked(scene)
    /\ IsSome(pending)
    /\ LET f == FinalizeAll(SubSeq(commands, top + 1, Len(commands)), scene, <<>>, <<>>)
           r == Execute(pending[1].cmd, f.scene)
       IN  /\ scene' = r.scene
           /\ commands' = Append(SubSeq(commands, 1, top), r.self)
           /\ obs' = Append(SubSeq(obs, 1, top),
                            Observe(pending[1].cmd, pending[1].obs, f.scene.graph, r.self))
           /\ dropped' = f.commands
           /\ dropped_obs' = [i \in 1..(Len(commands) - top) |->
                                 DroppedObs(obs[top + i], "reverted", f.noted[i])]
    /\ top' = top + 1
    /\ pending' = None
    /\ last' = [op |-> "do", idx |-> top + 1]
    /\ UNCHANGED <<created, made>>
    /\ TVarsUnchanged

\* CommandStack::undo
Undo ==
    /\ Idle
    /\ top > 0
    /\ LET r == Revert(commands[top], scene)
       IN  /\ scene' = r.scene
           /\ commands' = [commands EXCEPT ![top] = r.self]
    /\ top' = top - 1
    /\ dropped' = <<>>
    /\ dropped_obs' = <<>>
    /\ obs' = Churned(obs, top + 1)
    /\ last' = [op |-> "undo", idx |-> top]
    /\ UNCHANGED <<pending, created, made>>
    /\ TVarsUnchanged

\* CommandStack::redo
Redo ==
    /\ Idle
    /\ top < Len(commands)
    /\ LET r == Execute(commands[top + 1], scene)
       IN  /\ scene' = r.scene
           /\ commands' = [commands EXCEPT ![top + 1] = r.self]
           /\ obs' = Churned([obs EXCEPT ![top + 1] =
                                      Observe(commands[top + 1], @, scene.graph, r.self)],
                              top + 2)
    /\ top' = top + 1
    /\ dropped' = <<>>
    /\ dropped_obs' = <<>>
    /\ last' = [op |-> "redo", idx |-> top + 1]
    /\ UNCHANGED <<pending, created, made>>
    /\ TVarsUnchanged

\* CommandStack::clear
ClearStack ==
    /\ Idle
    /\ commands # <<>>
    /\ LET f == FinalizeAll(commands, scene, <<>>, <<>>)
       IN  /\ scene' = f.scene
           /\ dropped' = f.commands
           /\ dropped_obs' = [i \in 1..Len(commands) |->
                                 DroppedObs(obs[i], WasPhase(i), f.noted[i])]
    /\ commands' = <<>>
    /\ obs' = <<>>
    /\ top' = 0
    /\ last' = [op |-> "clear", idx |-> 0]
    /\ UNCHANGED <<pending, created, made>>
    /\ TVarsUnchanged

\* Command::finalize called once more on every command the stack has drained.
FinalizeAgain ==
    /\ Idle
    /\ dropped # <<>>
    /\ LET f == FinalizeAll(dropped, scene, <<>>, <<>>)
       IN  /\ scene' = f.scene
           /\ dropped' = f.commands
           /\ dropped_obs' = [i \in 1..Len(dropped) |->
                                 [dropped_obs[i] EXCEPT !.again =
                                      IF f.noted[i].unchanged /\ f.commands[i] = dropped[i]
                                      THEN "noop" ELSE "changed"]]
    /\ last' = [op |-> "finalize_again", idx |-> 0]
    /\ UNCHANGED <<commands, top, pending, obs, created, made>>
    /\ TVarsUnchanged

\* A node added to the graph by the editor itself, outside the command stack.
DirectAdd ==
    /\ Idle
    /\ created < MaxNodes
    /\ scene' = WithGraph(scene, GraphAddNode(scene.graph, NewNode(created + 1)).g)
    /\ created' = created + 1
    /\ last' = [op |-> "add", idx |-> 0]
    /\ dropped' = <<>>
    /\ dropped_obs' = <<>>
    /\ obs' = Churned(obs, top + 1)
    /\ UNCHANGED <<commands, top, pending, made>>
    /\ TVarsUnchanged

Next ==
    \/ NewAddNode
    \/ NewDeleteNode
    \/ NewDeleteSubGraph
    \/ NewAddModel
    \/ DoCommand
    \/ Undo
    \/ Redo
    \/ ClearStack
    \/ FinalizeAgain
    \/ DirectAdd

Spec == Init /\ [][Next]_vars

TypeOK == ~Panicked(scene)

(***************************************************************************)
(* Deleting sub-graphs of a scene that holds a subtree of five nodes:      *)
(* root -> A; A -> B, C; B -> D, E.                                        *)
(***************************************************************************)
\* Graph::add_node followed by Graph::link_nodes under the given parent.
AddUnder(g, name, parent) ==
    LET r == GraphAddNode(g, NewNode(name))
    IN  LinkNodes(r.g, r.handle, parent)

Handle1(i) == [index |-> i, generation |-> 1]

TreeScene ==
    LET g0 == EmptyScene.graph
        gA == AddUnder(g0, 1, Root)
        gB == AddUnder(gA, 2, Handle1(2))
        gC == AddUnder(gB, 3, Handle1(2))
        gD == AddUnder(gC, 4, Handle1(3))
        gE == AddUnder(gD, 5, Handle1(3))
    IN  WithGraph(EmptyScene, gE)

InitSubGraph ==
    /\ scene = TreeScene
    /\ commands = <<>>
    /\ top = 0
    /\ pending = None
    /\ dropped = <<>>
    /\ obs = <<>>
    /\ dropped_obs = <<>>
    /\ created = 5
    /\ made = 0
    /\ last = [op |-> "init", idx |-> 0]
    /\ tcmd = None
    /\ tcalls = <<>>
    /\ tobs = <<>>
    /\ EngineIdle

NextSubGraph ==
    \/ NewDeleteSubGraph
    \/ DoCommand
    \/ Undo
    \/ Redo
    \/ ClearStack
    \/ FinalizeAgain

SpecSubGraph == InitSubGraph /\ [][NextSubGraph]_vars

(***************************************************************************)
(* One Move/Scale/Rotate command on one node.  The caller constructs it    *)
(* with any old and new value and calls execute and revert in any order.   *)
(***************************************************************************)
TNode == Handle1(2)

FieldOf(kind, node) ==
    CASE kind = "Move" -> node.position
      [] kind = "Scale" -> node.scale
      [] kind = "Rotate" -> node.rotation

TField == FieldOf(tcmd[1].kind, Borrow(scene.graph, TNode))

InitTransform ==
    /\ \E v \in Vectors :
           scene = WithGraph(EmptyScene,
                             GraphAddNode(EmptyScene.graph,
                                          [NewNode(1) EXCEPT !.position = v,
                                                             !.scale = v,
                                                             !.rotation = v]).g)
    /\ commands = <<>>
    /\ top = 0
    /\ pending = None
    /\ dropped = <<>>
    /\ obs = <<>>
    /\ dropped_obs = <<>>
    /\ created = 1
    /\ made = 0
    /\ last = [op |-> "init", idx |-> 0]
    /\ tcmd = None
    /\ tcalls = <<>>
    /\ tobs = <<>>
    /\ EngineIdle

GraphVarsUnchanged ==
    /\ UNCHANGED <<commands, top, pending, dropped, obs, dropped_obs, created, made>>
    /\ EngineVarsUnchanged

\* tobs[1] is what the constructor was given; tobs[i + 1] is the value of the
\* node's field just before the i-th call.
TNew ==
    /\ IsNone(tcmd)
    /\ \E old \in Vectors, new \in Vectors :
           /\ \/ tcmd' = Some(MoveNodeCommandNew(TNode, old, new))
              \/ tcmd' = Some(ScaleNodeCommandNew(TNode, old, new))
              \/ tcmd' = Some(RotateNodeCommandNew(TNode, old, new))
           /\ tobs' = <<[old |-> old, new |-> new]>>
    /\ last' = [op |-> "new", idx |-> 0]
    /\ UNCHANGED <<scene, tcalls>>
    /\ GraphVarsUnchanged

TExecute ==
    /\ ~Panicked(scene)
    /\ IsSome(tcmd)
    /\ Len(tcalls) < MaxCalls
    /\ LET r == Execute(tcmd[1], scene)
       IN  /\ scene' = r.scene
           /\ tcmd' = Some(r.self)
    /\ tcalls' = Append(tcalls, "execute")
    /\ tobs' = Append(tobs, TField)
    /\ last' = [op |-> "execute", idx |-> 0]
    /\ GraphVarsUnchanged

TRevert ==
    /\ ~Panicked(scene)
    /\ IsSome(tcmd)
    /\ Len(tcalls) < MaxCalls
    /\ LET r == Revert(tcmd[1], scene)
       IN  /\ scene' = r.scene
           /\ tcmd' = Some(r.self)
    /\ tcalls' = Append(tcalls, "revert")
    /\ tobs' = Append(tobs, TField)
    /\ last' = [op |-> "revert", idx |-> 0]
    /\ GraphVarsUnchanged

NextTransform == TNew \/ TExecute \/ TRevert

SpecTransform == InitTransform /\ [][NextTransform]_vars

(***************************************************************************)
(* One command of the catalog on a scene with scripts and properties:      *)
(* root -> A, C; A -> B.  A carries a script and two properties, B and C   *)
(* carry neither.  The caller constructs one command and calls execute,    *)
(* revert, finalize and name on it in any order.                           *)
(***************************************************************************)
NodeA == Handle1(2)
NodeB == Handle1(3)
NodeC == Handle1(4)

Scripts == {NewScript(1, 11), NewScript(2, 20)}

\* The serialized forms a ScriptDataBlobCommand is given.
Blobs == {SaveOptScript(Some(s)) : s \in Scripts \cup {NewScript(1, 10)}}

PropertyValues == {1, 7}
PropertyNames == {"p", "r"}
NodeNames == {1, 9}

EditScene ==
    LET g0 == EmptyScene.graph
        a == [NewNode(1) EXCEPT !.script = Some(NewScript(1, 10)),
                                !.properties = <<[name |-> "p", value |-> 1],
                                                 [name |-> "q", value |-> 2]>>]
        gA == GraphAddNode(g0, a).g
        gB == AddUnder(gA, 2, NodeA)
        gC == AddUnder(gB, 3, Root)
    IN  WithGraph(EmptyScene, gC)

InitEdit ==
    /\ scene = EditScene
    /\ commands = <<>>
    /\ top = 0
    /\ pending = None
    /\ dropped = <<>>
    /\ obs = <<>>
    /\ dropped_obs = <<>>
    /\ created = 3
    /\ made = 0
    /\ last = [op |-> "init", idx |-> 0]
    /\ tcmd = None
    /\ tcalls = <<>>
    /\ tobs = <<>>
    /\ EngineIdle

\* tobs[1] notes the scene and the command at construction; tobs[i + 1] notes
\* the scene and the command just before the i-th call and, for a call of
\* name, the label it returned.
CNote(s, c, label) == [scene |-> s, cmd |-> c, label |-> label]

CConstructed(c) ==
    /\ tcmd' = Some(c)
    /\ tobs' = <<CNote(scene, c, <<>>)>>
    /\ last' = [op |-> "new", idx |-> 0]
    /\ UNCHANGED <<scene, tcalls>>
    /\ GraphVarsUnchanged

\* The editor re-parents a node under a node outside the node's own subtree.
CNewLink ==
    /\ IsNone(tcmd)
    /\ \E child \in {NodeA, NodeB, NodeC} :
           \E parent \in Reachable(scene.graph) \ Reach(scene.graph, {child}, {}) :
               CConstructed(LinkNodesCommandNew(child, parent))

CNewSetScript ==
    /\ IsNone(tcmd)
    /\ \E handle \in {NodeA, NodeB} :
           \E script \in {None} \cup {Some(s) : s \in Scripts} :
               CConstructed(SetScriptCommandNew(handle, script))

CNewScriptDataBlob ==
    /\ IsNone(tcmd)
    /\ \E handle \in {NodeA, NodeB} :
           \E old_value \in Blobs, new_value \in Blobs :
               CConstructed(ScriptDataBlobCommandNew(handle, old_value, new_value))

CNewSetPropertyValue ==
    /\ IsNone(tcmd)
    /\ \E index \in 0..(Len(Borrow(scene.graph, NodeA).properties) - 1) :
           \E value \in PropertyValues :
               CConstructed(SetPropertyValueCommandNew(NodeA, index, value))

CNewSetPropertyName ==
    /\ IsNone(tcmd)
    /\ \E index \in 0..(Len(Borrow(scene.graph, NodeA).properties) - 1) :
           \E name \in PropertyNames :
               CConstructed(SetPropertyNameCommandNew(NodeA, index, name))

CNewProperty ==
    /\ IsNone(tcmd)
    /\ \E handle \in {NodeA, NodeB} :
           \E c \in {AddPropertyCommandNew(handle, [name |-> "r", value |-> 7])}
                     \cup {RemovePropertyCommandNew(handle, index) : index \in 0 .. 1} :
               CConstructed(c)

CNewSetName ==
    /\ IsNone(tcmd)
    /\ \E handle \in {NodeA, NodeB}, name \in NodeNames :
           CConstructed(SetNameCommandNew(handle, name))

CNewDelete ==
    /\ IsNone(tcmd)
    /\ \E h \in {NodeA, NodeB} :
           \E c \in {DeleteNodeCommandNew(h), DeleteSubGraphCommandNew(h)} :
               CConstructed(c)

CNewTransform ==
    /\ IsNone(tcmd)
    /\ \E c \in {MoveNodeCommandNew(NodeA, Vec0, <<1, 2, 3>>),
                 ScaleNodeCommandNew(NodeA, Vec0, <<1, 2, 3>>),
                 RotateNodeCommandNew(NodeA, Vec0, <<1, 2, 3>>)} :
           CConstructed(c)

CNewNodeCommand ==
    /\ IsNone(tcmd)
    /\ \E kind \in NodeCommandKinds, value \in Vectors :
           CConstructed(NodeCommandNew(kind, NodeA, value))

CNewAddNode ==
    /\ IsNone(tcmd)
    /\ \E parent \in {Root, NodeB} :
           LET c == AddNodeCommandNew(NewNode(created + 1), parent)
           IN  /\ tcmd' = Some(c)
               /\ tobs' = <<CNote(scene, c, <<>>)>>
    /\ created' = created + 1
    /\ last' = [op |-> "new", idx |-> 0]
    /\ UNCHANGED <<scene, tcalls, commands, top, pending, dropped, obs, dropped_obs, made>>
    /\ EngineVarsUnchanged

CNewAddModel ==
    /\ IsNone(tcmd)
    /\ LET m == LoadModel(scene, created + 1, 1, 1)
       IN  /\ scene' = m.scene
           /\ tcmd' = Some(m.command)
           /\ tobs' = <<CNote(m.scene, m.command, <<>>)>>
    /\ created' = created + 1
    /\ last' = [op |-> "new", idx |-> 0]
    /\ UNCHANGED <<tcalls, commands, top, pending, dropped, obs, dropped_obs, made>>
    /\ EngineVarsUnchanged

CCallable == ~Panicked(scene) /\ IsSome(tcmd) /\ Len(tcalls) < MaxEditCalls

CExecute ==
    /\ CCallable
    /\ LET r == Execute(tcmd[1], scene)
       IN  /\ scene' = r.scene
           /\ tcmd' = Some(r.self)
    /\ tcalls' = Append(tcalls, "execute")
    /\ tobs' = Append(tobs, CNote(scene, tcmd[1], <<>>))
    /\ last' = [op |-> "execute", idx |-> 0]
    /\ GraphVarsUnchanged

CRevert ==
    /\ CCallable
    /\ LET r == Revert(tcmd[1], scene)
       IN  /\ scene' = r.scene
           /\ tcmd' = Some(r.self)
    /\ tcalls' = Append(tcalls, "revert")
    /\ tobs' = Append(tobs, CNote(scene, tcmd[1], <<>>))
    /\ last' = [op |-> "revert", idx |-> 0]
    /\ GraphVarsUnchanged

CFinalize ==
    /\ CCallable
    /\ LET r == Finalize(tcmd[1], scene)
       IN  /\ scene' = r.scene
           /\ tcmd' = Some(r.self)
    /\ tcalls' = Append(tcalls, "finalize")
    /\ tobs' = Append(tobs, CNote(scene, tcmd[1], <<>>))
    /\ last' = [op |-> "finalize", idx |-> 0]
    /\ GraphVarsUnchanged

CName ==
    /\ CCallable
    /\ LET r == Name(tcmd[1], scene)
       IN  /\ scene' = r.scene
           /\ tcmd' = Some(r.self)
           /\ tobs' = Append(tobs, CNote(scene, tcmd[1], r.label))
    /\ tcalls' = Append(tcalls, "name")
    /\ last' = [op |-> "name", idx |-> 0]
    /\ GraphVarsUnchanged

NextEdit ==
    \/ CNewLink
    \/ CNewSetScript
    \/ CNewScriptDataBlob
    \/ CNewSetPropertyValue
    \/ CNewSetPropertyName
    \/ CNewProperty
    \/ CNewSetName
    \/ CNewDelete
    \/ CNewTransform
    \/ CNewNodeCommand
    \/ CNewAddNode
    \/ CNewAddModel
    \/ CExecute
    \/ CRevert
    \/ CFinalize
    \/ CName

SpecEdit == InitEdit /\ [][NextEdit]_vars

(***************************************************************************)
(* The logger's callers.  Each thread makes Log calls one at a time; a     *)
(* call takes the mutex, runs its body (for a write: one send per          *)
(* listener, then the output to stdout and the file) and releases the      *)
(* mutex when it returns.  log_calls records the calls in the order they   *)
(* took the mutex, with the verbosity and the listeners found then.        *)
(***************************************************************************)
Issued == Len(log_calls) + Cardinality({t \in Threads : threads[t].pc = "lock"})

\* The threads are interchangeable: of the threads outside the logger, the
\* first one makes the next call.
CanCall(t) ==
    /\ threads[t].pc = "idle"
    /\ \A u \in Threads : u < t => threads[u].pc /= "idle"
    /\ Issued < MaxLogCalls

\* The caller has evaluated its arguments and waits for LOG.lock().
Called(t, op, kind, msg, listener) ==
    /\ threads' = [threads EXCEPT ![t] = [pc |-> "lock", op |-> op, kind |-> kind,
                                          msg |-> msg, i |-> listener, call |-> 0]]
    /\ UNCHANGED <<log, mutex, stdout, channels, log_calls, absm>> /\ UNCHANGED LogRest
    /\ UNCHANGED <<scene, commands, top, pending, dropped, obs, dropped_obs,
                   created, made, last, tcmd, tcalls, tobs>>

Write ==
    \E t \in Threads, kind \in MessageKinds :
        /\ CanCall(t)
        /\ Called(t, "write", kind, <<Texts[Issued + 1]>>, 0)

Writeln ==
    \E t \in Threads, kind \in MessageKinds :
        /\ CanCall(t)
        /\ Called(t, "writeln", kind, <<Texts[Issued + 1]>>, 0)

Info ==
    \E t \in Threads :
        /\ CanCall(t)
        /\ Called(t, "info", KindOf("info", Information), <<Texts[Issued + 1]>>, 0)

Warn ==
    \E t \in Threads :
        /\ CanCall(t)
        /\ Called(t, "warn", KindOf("warn", Information), <<Texts[Issued + 1]>>, 0)

Err ==
    \E t \in Threads :
        /\ CanCall(t)
        /\ Called(t, "err", KindOf("err", Information), <<Texts[Issued + 1]>>, 0)

SetVerbosity ==
    \E t \in Threads, kind \in MessageKinds :
        /\ CanCall(t)
        /\ Called(t, "set_verbosity", kind, <<>>, 0)

\* The caller passes the Sender of a channel it has created.
AddListener ==
    \E t \in Threads, l \in Senders :
        /\ CanCall(t)
        /\ l \notin Range(log.listeners)
        /\ \A u \in Threads : ~(threads[u].op = "add_listener" /\ threads[u].i = l)
        /\ Called(t, "add_listener", Information, <<>>, l)

\* verify(Ok(..)) returns at once; verify(Err(e)) is writeln(Error, ..).
Verify ==
    \E t \in Threads, ok \in BOOLEAN :
        /\ CanCall(t)
        /\ IF ok
           THEN /\ log_calls' = Append(log_calls,
                                       [thread |-> t, op |-> "verify_ok", kind |-> Error,
                                        msg |-> <<>>, listener |-> 0,
                                        verbosity |-> log.verbosity,
                                        listeners |-> Range(log.listeners),
                                        registered |-> Len(log.listeners),
                                        returned |-> TRUE])
                /\ UNCHANGED <<log, mutex, threads, stdout, channels, absm>> /\ UNCHANGED LogRest
                /\ UNCHANGED <<scene, commands, top, pending, dropped, obs, dropped_obs,
                               created, made, last, tcmd, tcalls, tobs>>
           ELSE Called(t, "verify", KindOf("verify", Information), <<Texts[Issued + 1]>>, 0)

\* LOG.lock() succeeds and the body starts: set_verbosity and add_listener
\* assign, a write builds the String for write_internal and tests its kind.
Lock ==
    \E t \in Threads :
        LET th == threads[t]
            msg == InternalMsg(th.op, th.msg)
        IN  /\ th.pc = "lock"
            /\ MutexFree(mutex)
            /\ mutex' = t
            /\ log_calls' = Append(log_calls,
                                   [thread |-> t, op |-> th.op, kind |-> th.kind,
                                    msg |-> th.msg, listener |-> th.i,
                                    verbosity |-> log.verbosity,
                                    listeners |-> Range(log.listeners),
                                    registered |-> Len(log.listeners),
                                    returned |-> FALSE])
            /\ log' = CASE th.op = "set_verbosity" -> [log EXCEPT !.verbosity = th.kind]
                        [] th.op = "add_listener" ->
                               [log EXCEPT !.listeners = PushListener(@, th.i)]
                        [] OTHER -> log
            /\ threads' = [threads EXCEPT ![t] =
                              IF th.op \in WriteOps
                              THEN [th EXCEPT !.pc = IF Accepts(th.kind, log.verbosity)
                                                     THEN "send" ELSE "unlock",
                                              !.msg = msg, !.i = 1,
                                              !.call = Len(log_calls) + 1]
                              ELSE [th EXCEPT !.pc = "unlock",
                                              !.call = Len(log_calls) + 1]]
            /\ UNCHANGED <<stdout, channels, absm>> /\ UNCHANGED LogRest
            /\ UNCHANGED <<scene, commands, top, pending, dropped, obs, dropped_obs,
                           created, made, last, tcmd, tcalls, tobs>>

\* One turn of write_internal's loop over the listeners.
SendToListener ==
    \E t \in Threads :
        LET th == threads[t]
        IN  /\ th.pc = "send"
            /\ th.i <= Len(log.listeners)
            /\ LET r == Send(channels, disconnected, log.listeners[th.i],
                             LogMessage(th.kind, th.msg))
               IN  /\ channels' = r.ch
                   /\ threads' = [threads EXCEPT
                          ![t].i = FanOutNext(th.i, Len(log.listeners), r.ok)]
            /\ UNCHANGED <<log, mutex, stdout, log_calls, absm>> /\ UNCHANGED LogRest
            /\ UNCHANGED <<scene, commands, top, pending, dropped, obs, dropped_obs,
                           created, made, last, tcmd, tcalls, tobs>>

\* After the loop: the prefixed String goes to stdout and to the file.
WriteOut ==
    \E t \in Threads :
        LET th == threads[t]
            text == InsertPrefix(th.kind, th.msg)
        IN  /\ th.pc = "send"
            /\ th.i > Len(log.listeners)
            /\ stdout' = Append(stdout, text)
            /\ log' = [log EXCEPT !.file = Append(@, text)]
            /\ threads' = [threads EXCEPT ![t].pc = "unlock"]
            /\ UNCHANGED <<mutex, channels, log_calls, absm>> /\ UNCHANGED LogRest
            /\ UNCHANGED <<scene, commands, top, pending, dropped, obs, dropped_obs,
                           created, made, last, tcmd, tcalls, tobs>>

\* The call returns and the guard of the mutex is dropped.
Unlock ==
    \E t \in Threads :
        LET th == threads[t]
        IN  /\ th.pc = "unlock"
            /\ mutex' = 0
            /\ threads' = [threads EXCEPT ![t] = IdleThread]
            /\ log_calls' = [log_calls EXCEPT ![th.call].returned = TRUE]
            /\ UNCHANGED <<log, stdout, channels, absm>> /\ UNCHANGED LogRest
            /\ UNCHANGED <<scene, commands, top, pending, dropped, obs, dropped_obs,
                           created, made, last, tcmd, tcalls, tobs>>

NextLog ==
    \/ Write
    \/ Writeln
    \/ Info
    \/ Warn
    \/ Err
    \/ SetVerbosity
    \/ AddListener
    \/ Verify
    \/ Lock
    \/ SendToListener
    \/ WriteOut
    \/ Unlock

\* A run starts with some listeners already registered (the Senders 1 .. n,
\* in the order of their add_listener calls) and with a verbosity set
\* earlier.
InitLog ==
    /\ scene = EmptyScene
    /\ commands = <<>>
    /\ top = 0
    /\ pending = None
    /\ dropped = <<>>
    /\ obs = <<>>
    /\ dropped_obs = <<>>
    /\ created = 0
    /\ made = 0
    /\ last = [op |-> "init", idx |-> 0]
    /\ tcmd = None
    /\ tcalls = <<>>
    /\ tobs = <<>>
    /\ \E n \in 0 .. MaxListeners, verbosity \in MessageKinds :
           log = [NewLog EXCEPT !.listeners = [i \in 1 .. n |-> i],
                                !.verbosity = verbosity]
    /\ mutex = 0
    /\ threads = [t \in Threads |-> IdleThread]
    /\ stdout = <<>>
    /\ channels = [l \in Senders |-> <<>>]
    /\ log_calls = <<>>
    /\ disconnected = {}
    /\ absm = <<>>
    /\ lights = <<>>
    /\ light_calls = <<>>
    /\ transition = <<>>
    /\ transition_calls = <<>>
    /\ ui_queue = <<>>
    /\ resources = LoadedResources
    /\ instantiating = <<>>

SpecLog == InitLog /\ [][NextLog]_vars

\* The owner of a listener's Receiver drops it, at any moment.
DropReceiver ==
    \E l \in Senders :
        /\ l \notin disconnected
        /\ Cardinality(disconnected) < MaxDrops
        /\ disconnected' = disconnected \cup {l}
        /\ UNCHANGED <<log, mutex, threads, stdout, channels, log_calls, absm>>
        /\ UNCHANGED UiVars
        /\ UNCHANGED AbsmVars
        /\ UNCHANGED <<scene, commands, top, pending, dropped, obs, dropped_obs,
                       created, made, last, tcmd, tcalls, tobs>>

NextLogDrop ==
    \/ NextLog
    \/ DropReceiver

\* One thread logs and the other has ended; some listeners are registered
\* and none of their Receivers is dropped yet.
InitLogDrop ==
    /\ scene = EmptyScene
    /\ commands = <<>>
    /\ top = 0
    /\ pending = None
    /\ dropped = <<>>
    /\ obs = <<>>
    /\ dropped_obs = <<>>
    /\ created = 0
    /\ made = 0
    /\ last = [op |-> "init", idx |-> 0]
    /\ tcmd = None
    /\ tcalls = <<>>
    /\ tobs = <<>>
    /\ \E n \in 0 .. MaxListeners, verbosity \in MessageKinds :
           log = [NewLog EXCEPT !.listeners = [i \in 1 .. n |-> i],
                                !.verbosity = verbosity]
    /\ mutex = 0
    /\ threads = [t \in Threads |->
                      IF t = 1 THEN IdleThread ELSE [IdleThread EXCEPT !.pc = "ended"]]
    /\ stdout = <<>>
    /\ channels = [l \in Senders |-> <<>>]
    /\ log_calls = <<>>
    /\ disconnected = {}
    /\ absm = <<>>
    /\ lights = <<>>
    /\ light_calls = <<>>
    /\ transition = <<>>
    /\ transition_calls = <<>>
    /\ ui_queue = <<>>
    /\ resources = LoadedResources
    /\ instantiating = <<>>

SpecLogDrop == InitLogDrop /\ [][NextLogDrop]_vars

(***************************************************************************)
(* ABSM resources (src/resource/absm.rs).  MachineDefinition::instantiate  *)
(* is engine code outside the excerpt: it loads and retargets the          *)
(* animations of the definition's PlayAnimation nodes in order, fails at   *)
(* the first faulty one, and otherwise adds a Machine to the scene.        *)
(* When it retargets them is not fixed by the excerpt: a poll that leaves   *)
(* the callee pending may already have put some of them into the scene,    *)
(* and a failure may leave those retargeted before it (kept).              *)
(* An AbsmResource is a shared handle: resources holds the state behind    *)
(* each one, and a machine's resource is the handle.  instantiate is an    *)
(* async fn: its future waits in definition.instantiate(..).await holding  *)
(* the data_ref() guard and the scene; it may be polled there any number   *)
(* of times and may be dropped after any poll.                             *)
(***************************************************************************)
AnimationStates == {"ok", "faulty"}

Definitions ==
    UNION {[1 .. n -> AnimationStates] : n \in 0 .. MaxAbsmAnims}

Paths == {"a.absm", "b.absm"}

\* ResourceData::set_path
AbsmResourceStateSetPath(self, path) == [self EXCEPT !.path = path]

FaultyAt(definition) == {i \in 1 .. Len(definition) : definition[i] = "faulty"}

FirstFaulty(definition) ==
    CHOOSE i \in FaultyAt(definition) : \A k \in FaultyAt(definition) : i <= k

\* The animations the callee can retarget: all of them, or those before
\* the first faulty one.
Retargetable(definition) ==
    IF FaultyAt(definition) = {} THEN Len(definition) ELSE FirstFaulty(definition) - 1

\* How many animations the callee may have put into the scene when it ends,
\* done of them in earlier polls.
KeptChoices(definition, done) == done .. Retargetable(definition)

NewMachine(root, animations) ==
    [root |-> root, animations |-> animations, resource |-> None]

\* A poll that leaves the callee pending with n animations retargeted, those
\* of done in earlier polls.
MachineDefinitionPoll(s, done, n) ==
    LET anim == SpawnAnimations(s.animations, 0, n - Len(done), done)
    IN  [scene |-> [s EXCEPT !.animations = anim.a], done |-> anim.handles]

\* The poll in which the callee ends.
MachineDefinitionInstantiate(definition, root, s, done, kept) ==
    IF FaultyAt(definition) /= {}
    THEN [ok |-> FALSE, machine |-> NONE, error |-> "InvalidAnimation",
          scene |-> MachineDefinitionPoll(s, done, kept).scene]
    ELSE LET r == MachineDefinitionPoll(s, done, Len(definition))
             m == PoolSpawn(r.scene.animation_machines, NewMachine(root, r.done))
         IN  [ok |-> TRUE, machine |-> m.handle, error |-> "",
              scene |-> [r.scene EXCEPT !.animation_machines = m.g]]

\* A variant that returns the machine without assigning the resource.
AbsmInstantiate_NoResource(self, root, s, done, kept) ==
    LET r == MachineDefinitionInstantiate(resources[self].absm_definition, root, s,
                                          done, kept)
    IN  [scene |-> r.scene,
         result |-> [ok |-> r.ok, machine |-> r.machine, error |-> r.error]]

\* AbsmResource::instantiate in the poll in which definition.instantiate(..)
\* is ready: the `?` returns its error, otherwise the machine gets a clone
\* of the resource handle.
AbsmInstantiate(self, root, s, done, kept) ==
    LET r == MachineDefinitionInstantiate(resources[self].absm_definition, root, s,
                                          done, kept)
    IN  IF ~r.ok
        THEN [scene |-> r.scene,
              result |-> [ok |-> FALSE, machine |-> NONE, error |-> r.error]]
        ELSE LET machines == r.scene.animation_machines
                 machine == [Borrow(machines, r.machine) EXCEPT !.resource = Some(self)]
             IN  [scene |-> [r.scene EXCEPT
                                 !.animation_machines = SetPayload(@, r.machine, machine)],
                  result |-> [ok |-> TRUE, machine |-> r.machine, error |-> ""]]

\* The data_ref() guard of a resource is held by the future that is
\* instantiating it.
DataLocked(id) == IsSome(instantiating) /\ instantiating[1].resource = id

AbsmFrame ==
    /\ UNCHANGED <<commands, top, pending, dropped, obs, dropped_obs,
                   created, made, last, tcmd, tcalls, tobs>>
    /\ UNCHANGED LogVars
    /\ UNCHANGED UiVars

\* The caller polls resource.instantiate(root, scene, ..) for the first
\* time: the future takes the data_ref() guard and the scene, and waits in
\* definition.instantiate for the animations to load.
InstantiateBegin ==
    /\ Len(absm) < MaxInstantiations
    /\ IsNone(instantiating)
    /\ \E self \in ResourceIds :
           /\ ~DataLocked(self)
           /\ instantiating' = Some([resource |-> self, root |-> Root,
                                     before |-> scene, done |-> <<>>])
    /\ UNCHANGED <<scene, absm, resources>>
    /\ AbsmFrame

\* A further poll that leaves the callee pending: it has retargeted some
\* more of the animations that loaded.
InstantiatePoll ==
    /\ IsSome(instantiating)
    /\ LET f == instantiating[1]
       IN  \E n \in (Len(f.done) + 1) ..
                        Retargetable(resources[f.resource].absm_definition) :
               LET r == MachineDefinitionPoll(scene, f.done, n)
               IN  /\ scene' = r.scene
                   /\ instantiating' = Some([f EXCEPT !.done = r.done])
    /\ UNCHANGED <<absm, resources>>
    /\ AbsmFrame

\* definition.instantiate(..) becomes ready and the rest of the method runs
\* in the same poll; absm records the call with the scene before the call
\* and after it.
InstantiateComplete ==
    /\ IsSome(instantiating)
    /\ LET f == instantiating[1]
       IN  \E kept \in KeptChoices(resources[f.resource].absm_definition, Len(f.done)) :
               LET r == AbsmInstantiate(f.resource, f.root, scene, f.done, kept)
               IN  /\ scene' = r.scene
                   /\ absm' = Append(absm, [resource |-> f.resource, completed |-> TRUE,
                                            result |-> r.result,
                                            before |-> f.before, after |-> r.scene])
    /\ instantiating' = None
    /\ UNCHANGED resources
    /\ AbsmFrame

\* The caller drops the future while it waits: nothing after the await
\* runs and no result is returned; the guard is released.  What the polls
\* before the drop put into the scene stays there.
InstantiateDrop ==
    /\ IsSome(instantiating)
    /\ absm' = Append(absm, [resource |-> instantiating[1].resource,
                             completed |-> FALSE,
                             result |-> [ok |-> FALSE, machine |-> NONE, error |-> ""],
                             before |-> instantiating[1].before, after |-> scene])
    /\ instantiating' = None
    /\ UNCHANGED <<scene, resources>>
    /\ AbsmFrame

\* state.set_path(path) on a resource whose state is not borrowed
SetPath ==
    /\ \E id \in ResourceIds, path \in Paths :
           /\ ~DataLocked(id)
           /\ resources' = [resources EXCEPT ![id] = AbsmResourceStateSetPath(@, path)]
    /\ UNCHANGED <<scene, absm, instantiating>>
    /\ AbsmFrame

NextAbsm ==
    \/ InstantiateBegin
    \/ InstantiatePoll
    \/ InstantiateComplete
    \/ InstantiateDrop
    \/ SetPath

InitAbsm ==
    /\ scene = EmptyScene
    /\ commands = <<>>
    /\ top = 0
    /\ pending = None
    /\ dropped = <<>>
    /\ obs = <<>>
    /\ dropped_obs = <<>>
    /\ created = 0
    /\ made = 0
    /\ last = [op |-> "init", idx |-> 0]
    /\ tcmd = None
    /\ tcalls = <<>>
    /\ tobs = <<>>
    /\ log = NewLog
    /\ mutex = 0
    /\ threads = [t \in Threads |-> IdleThread]
    /\ stdout = <<>>
    /\ channels = [l \in Senders |-> <<>>]
    /\ log_calls = <<>>
    /\ disconnected = {}
    /\ absm = <<>>
    /\ lights = <<>>
    /\ light_calls = <<>>
    /\ transition = <<>>
    /\ transition_calls = <<>>
    /\ ui_queue = <<>>
    /\ \E d \in [ResourceIds -> Definitions] :
           resources = [id \in ResourceIds |->
                            [path |-> "a.absm", absm_definition |-> d[id]]]
    /\ instantiating = <<>>

SpecAbsm == InitAbsm /\ [][NextAbsm]_vars

(***************************************************************************)
(* Light nodes (src/scene/light/point.rs, directional.rs) and their prefab *)
(* inheritance.  An f32 is counted in units of 0.00025, so that the        *)
(* defaults of the builders are whole numbers.  TemplateVariable, Base and *)
(* BaseLight are engine code outside the excerpt: a TemplateVariable is a  *)
(* value with a `modified` flag that every setter raises, and try_inherit  *)
(* copies the parent's value into an unmodified variable.                  *)
(***************************************************************************)
PointLightDefaultRadius == 40000
PointLightDefaultShadowBias == 100
CsmDefaultShadowBias == 1
Floats == {0 - 4000, 0, 100, 4000}
Names == {"", "Light"}
FarPlanes == {<<5, 25, 64>>, <<1, 2, 4>>}

Abs(x) == IF x < 0 THEN 0 - x ELSE x
Max(x, y) == IF x >= y THEN x ELSE y

TemplateVariableNew(value) == [value |-> value, modified |-> FALSE]
TemplateVariableSet(var, value) == [value |-> value, modified |-> TRUE]
TryInherit(var, parent) ==
    IF var.modified THEN var ELSE [var EXCEPT !.value = parent.value]

\* reset_inheritable_properties and reset_self_inheritable_properties lower
\* the flag of every inheritable variable and keep its value.
TemplateVariableReset(var) == [var EXCEPT !.modified = FALSE]

\* BaseBuilder::new().with_name(name).build_base() and the part of
\* BaseLightBuilder over it; the name stands for the properties of Base.
BaseBuild(name) == [name |-> TemplateVariableNew(name)]
BaseLightBuild(name, intensity) ==
    [base |-> BaseBuild(name), intensity |-> TemplateVariableNew(intensity)]

BaseInheritProperties(self, parent) ==
    [self EXCEPT !.name = TryInherit(@, parent.name)]
BaseLightInherit(self, parent) ==
    [self EXCEPT !.base = BaseInheritProperties(@, parent.base),
                 !.intensity = TryInherit(@, parent.intensity)]

CsmOptionsDefault ==
    [split_options |-> <<5, 25, 64>>, shadow_bias |-> CsmDefaultShadowBias]

\* CsmOptions::set_shadow_bias
CsmSetShadowBias(self, bias) == [self EXCEPT !.shadow_bias = Max(bias, 0)]

\* PointLightBuilder::build_point_light, DirectionalLightBuilder::
\* build_directional_light: the builder's values go in as they are.
BuildPointLight(base_light, radius, shadow_bias) ==
    [kind |-> "PointLight", base_light |-> base_light,
     shadow_bias |-> TemplateVariableNew(shadow_bias),
     radius |-> TemplateVariableNew(radius)]
BuildDirectionalLight(base_light, csm_options) ==
    [kind |-> "DirectionalLight", base_light |-> base_light,
     csm_options |-> TemplateVariableNew(csm_options)]

\* A variant of set_radius that stores the argument as it is.
PointLightSetRadius_NoAbs(self, radius) ==
    [self EXCEPT !.radius = TemplateVariableSet(@, radius)]

\* PointLight::set_radius, radius, set_shadow_bias
PointLightSetRadius(self, radius) ==
    [self EXCEPT !.radius = TemplateVariableSet(@, Abs(radius))]
PointLightRadius(self) == self.radius.value
PointLightSetShadowBias(self, bias) ==
    [self EXCEPT !.shadow_bias = TemplateVariableSet(@, bias)]

\* A variant of inherit that leaves the base light out.
PointLightInherit_SelfOnly(self, parent) ==
    IF parent.kind = "PointLight"
    THEN [self EXCEPT !.shadow_bias = TryInherit(@, parent.shadow_bias),
                      !.radius = TryInherit(@, parent.radius)]
    ELSE self

\* PointLight::inherit: parent.cast::<Self>() is Some for a point light.
PointLightInherit(self, parent) ==
    IF parent.kind = "PointLight"
    THEN [self EXCEPT !.base_light = BaseLightInherit(@, parent.base_light),
                      !.shadow_bias = TryInherit(@, parent.shadow_bias),
                      !.radius = TryInherit(@, parent.radius)]
    ELSE self

\* DirectionalLight::inherit
DirectionalLightInherit(self, parent) ==
    IF parent.kind = "DirectionalLight"
    THEN [self EXCEPT !.base_light = BaseLightInherit(@, parent.base_light),
                      !.csm_options = TryInherit(@, parent.csm_options)]
    ELSE self

\* BaseLight::reset_inheritable_properties, over Base's
BaseLightReset(self) ==
    [self EXCEPT !.base.name = TemplateVariableReset(@),
                 !.intensity = TemplateVariableReset(@)]

\* PointLight::reset_inheritable_properties
PointLightReset(self) ==
    [self EXCEPT !.base_light = BaseLightReset(@),
                 !.shadow_bias = TemplateVariableReset(@),
                 !.radius = TemplateVariableReset(@)]

\* DirectionalLight::reset_inheritable_properties
DirectionalLightReset(self) ==
    [self EXCEPT !.base_light = BaseLightReset(@),
                 !.csm_options = TemplateVariableReset(@)]

\* NodeTrait::reset_inheritable_properties of a light node
ResetInheritableProperties(self) ==
    IF self.kind = "PointLight" THEN PointLightReset(self)
    ELSE DirectionalLightReset(self)

\* NodeTrait::inherit of a light node; every try_inherit pairs variables of
\* one type, so the result is Ok.
Inherit(self, parent) ==
    [node |-> IF self.kind = "PointLight" THEN PointLightInherit(self, parent)
              ELSE DirectionalLightInherit(self, parent),
     ok |-> TRUE]

\* The lights a builder can make from the values of the tests and others.
BuiltLights ==
    {BuildPointLight(BaseLightBuild(n, i), r, b) :
         n \in Names, i \in {4000}, r \in {PointLightDefaultRadius, 4000, 0 - 4000},
         b \in {PointLightDefaultShadowBias}}
    \cup {BuildDirectionalLight(BaseLightBuild(n, i), [split_options |-> f, shadow_bias |-> b]) :
              n \in Names, i \in {4000}, f \in FarPlanes, b \in {CsmDefaultShadowBias, 0}}
DefaultLights ==
    {BuildPointLight(BaseLightBuild("", 4000), PointLightDefaultRadius,
                     PointLightDefaultShadowBias),
     BuildDirectionalLight(BaseLightBuild("", 4000), CsmOptionsDefault)}

LightIds == {"child", "parent"}

\* One call on a light; light_calls records it with the lights before and
\* after it.
LightCalled(op, who, arg, after, ok) ==
    /\ Len(light_calls) < MaxLightCalls
    /\ lights' = after
    /\ light_calls' = Append(light_calls,
           [op |-> op, who |-> who, arg |-> arg, before |-> lights,
            after |-> after, ok |-> ok])
    /\ UNCHANGED <<scene, commands, top, pending, dropped, obs, dropped_obs,
                   created, made, last, tcmd, tcalls, tobs, absm, transition,
                   transition_calls, ui_queue>>
    /\ UNCHANGED AbsmVars
    /\ UNCHANGED LogVars

SetRadius ==
    \E who \in LightIds, radius \in Floats :
        /\ lights[who].kind = "PointLight"
        /\ LightCalled("set_radius", who, radius,
               [lights EXCEPT ![who] = PointLightSetRadius(@, radius)], TRUE)

SetShadowBias ==
    \E bias \in Floats :
        /\ lights["child"].kind = "PointLight"
        /\ LightCalled("set_shadow_bias", "child", bias,
               [lights EXCEPT !["child"] = PointLightSetShadowBias(@, bias)], TRUE)

\* light.csm_options.get_mut().set_shadow_bias(bias)
SetCsmShadowBias ==
    \E bias \in Floats :
        /\ lights["child"].kind = "DirectionalLight"
        /\ LightCalled("csm_set_shadow_bias", "child", bias,
               [lights EXCEPT !["child"].csm_options =
                    TemplateVariableSet(@, CsmSetShadowBias(@.value, bias))], TRUE)

\* light.set_name(name), through DerefMut to Base
SetName ==
    \E name \in Names :
        /\ lights /= <<>>
        /\ LightCalled("set_name", "child", name,
               [lights EXCEPT !["child"].base_light.base.name =
                    TemplateVariableSet(@, name)], TRUE)

\* child.inherit(&parent)
InheritFromParent ==
    /\ lights /= <<>>
    /\ LET r == Inherit(lights["child"], lights["parent"])
       IN  LightCalled("inherit", "child", 0,
               [lights EXCEPT !["child"] = r.node], r.ok)

\* child.reset_inheritable_properties()
ResetChild ==
    /\ lights /= <<>>
    /\ LightCalled("reset", "child", 0,
           [lights EXCEPT !["child"] = ResetInheritableProperties(@)], TRUE)

NextLight ==
    \/ ResetChild
    \/ SetRadius
    \/ SetShadowBias
    \/ SetCsmShadowBias
    \/ SetName
    \/ InheritFromParent

InitLight ==
    /\ scene = EmptyScene
    /\ commands = <<>>
    /\ top = 0
    /\ pending = None
    /\ dropped = <<>>
    /\ obs = <<>>
    /\ dropped_obs = <<>>
    /\ created = 0
    /\ made = 0
    /\ last = [op |-> "init", idx |-> 0]
    /\ tcmd = None
    /\ tcalls = <<>>
    /\ tobs = <<>>
    /\ log = NewLog
    /\ mutex = 0
    /\ threads = [t \in Threads |-> IdleThread]
    /\ stdout = <<>>
    /\ channels = [l \in Senders |-> <<>>]
    /\ log_calls = <<>>
    /\ disconnected = {}
    /\ absm = <<>>
    /\ \E child \in DefaultLights, parent \in BuiltLights :
           lights = [id \in LightIds |-> IF id = "child" THEN child ELSE parent]
    /\ light_calls = <<>>
    /\ transition = <<>>
    /\ transition_calls = <<>>
    /\ ui_queue = <<>>
    /\ resources = LoadedResources
    /\ instantiating = <<>>

SpecLight == InitLight /\ [][NextLight]_vars

(***************************************************************************)
(* The Transition widget of the ABSM editor (editor/src/absm/             *)
(* transition.rs).  activity_factor and dt are f32 values between 0 and 2, *)
(* counted in units of 2^-26; a subtraction gives the exact difference     *)
(* rounded to the nearest f32 (24 significant bits, ties to even).         *)
(***************************************************************************)
F32One == 67108864
F32Quarter == F32One \div 4
F32Half == F32One \div 2

\* x rounded to the nearest multiple of step, ties to the even multiple.
RoundTo(x, step) ==
    LET q == x \div step
        r == x % step
    IN  IF 2 * r < step THEN q * step
        ELSE IF 2 * r > step THEN (q + 1) * step
        ELSE IF q % 2 = 0 THEN q * step ELSE (q + 1) * step

\* The f32 nearest to x units, for 0 <= x <= 2.0: below 0.25 every unit is
\* an f32, from 0.25 every second one, from 0.5 every fourth, from 1.0
\* every eighth.
RoundF32(x) ==
    IF x < F32Quarter THEN x
    ELSE IF x < F32Half THEN RoundTo(x, 2)
    ELSE IF x < F32One THEN RoundTo(x, 4)
    ELSE RoundTo(x, 8)

\* a - b in f32 followed by .max(0.0)
SubMax0(a, b) == IF a <= b THEN 0 ELSE RoundF32(a - b)

\* The frame times passed to update: 0, three tiny ones, 0.25, 0.5, 2.0.
Dts == {0, 1, 2, 3, F32Quarter, F32Half, 2 * F32One}

\* A UiMessage: its data (the value as text: a brush, or the bool of a
\* Select), where it goes and in which direction.  The widget
\* is "self"; "other" is a widget below it, whose messages are routed
\* through it.
UiMessage(data, value, destination, direction) ==
    [data |-> data, value |-> value, destination |-> destination,
     direction |-> direction]

\* WidgetMessage::foreground(handle, ToWidget, brush)
ForegroundMessage(brush) == UiMessage("Foreground", brush, "self", "ToWidget")

\* The messages that reach the widget from outside: the mouse entering,
\* leaving and moving, a selection request for it or for a widget below,
\* a selection answer of a widget below, and an activation.
RoutedMessages ==
    {UiMessage(d, "", "self", "FromWidget") : d \in {"MouseEnter", "MouseLeave", "MouseMove"}}
    \cup {UiMessage("Select", v, "self", "ToWidget") : v \in {"true", "false"}}
    \cup {UiMessage("Select", "true", "other", dir) : dir \in {"ToWidget", "FromWidget"}}
    \cup {UiMessage("Activate", "", "self", "ToWidget")}

\* TransitionBuilder::build; Selectable::default() is not selected.
TransitionBuild ==
    [activity_factor |-> 0, foreground |-> "NORMAL_BRUSH", selected |-> FALSE]

\* Widget::handle_routed_message (engine code outside the excerpt): a
\* Foreground message sent to this widget sets its foreground.
WidgetHandleRoutedMessage(self, message) ==
    IF /\ message.data = "Foreground"
       /\ message.destination = "self"
       /\ message.direction = "ToWidget"
    THEN [self EXCEPT !.foreground = message.value]
    ELSE self

\* Selectable::handle_routed_message (editor code outside the excerpt): a
\* Select sent to this widget with a new value stores the value and answers
\* with the reversed message.
SelectableHandleRoutedMessage(self, message) ==
    IF /\ message.data = "Select"
       /\ message.destination = "self"
       /\ message.direction = "ToWidget"
       /\ self.selected /= (message.value = "true")
    THEN [self |-> [self EXCEPT !.selected = (message.value = "true")],
          sent |-> <<[message EXCEPT !.direction = "FromWidget"]>>]
    ELSE [self |-> self, sent |-> <<>>]

\* Transition::handle_selection_change: the message it sends
HandleSelectionChange(self) ==
    <<ForegroundMessage(IF self.selected THEN "SELECTED_BRUSH" ELSE "NORMAL_BRUSH")>>

\* Control::handle_routed_message: the widget afterwards and the messages
\* sent to the user interface.
TransitionHandleRoutedMessage(self, message) ==
    LET w == WidgetHandleRoutedMessage(self, message)
        r == SelectableHandleRoutedMessage(w, message)
        self1 == r.self
    IN  IF message.data \in {"MouseEnter", "MouseLeave", "MouseMove", "Foreground"}
        THEN [self |-> self1,
              sent |-> r.sent \o
                  (CASE message.data = "MouseEnter" -> <<ForegroundMessage("PICKED_BRUSH")>>
                     [] message.data = "MouseLeave" -> HandleSelectionChange(self1)
                     [] OTHER -> <<>>)]
        ELSE IF message.data = "Select"
        THEN [self |-> self1,
              sent |-> r.sent \o
                  (IF /\ message.destination = "self"
                      /\ message.direction = "FromWidget"
                   THEN HandleSelectionChange(self1)
                   ELSE <<>>)]
        ELSE IF message.data = "Activate"
        THEN [self |-> [self1 EXCEPT !.activity_factor = F32One], sent |-> r.sent]
        ELSE [self |-> self1, sent |-> r.sent]

\* A variant of update without the clamp.
TransitionUpdate_NoClamp(self, dt) ==
    [self EXCEPT !.activity_factor =
         IF @ >= dt THEN RoundF32(@ - dt) ELSE 0 - RoundF32(dt - @)]

\* Control::update
TransitionUpdate(self, dt) ==
    [self EXCEPT !.activity_factor = SubMax0(@, dt)]

\* One call on the widget; transition_calls records it with the widget
\* before and after it and the messages it sent.
TransitionCalled(op, dt, message, after, sent) ==
    /\ Len(transition_calls) < MaxTransitionCalls
    /\ transition' = Some(after)
    /\ transition_calls' = Append(transition_calls,
           [op |-> op, dt |-> dt, message |-> message, before |-> transition,
            after |-> after, sent |-> sent])
    /\ UNCHANGED <<scene, commands, top, pending, dropped, obs, dropped_obs,
                   created, made, last, tcmd, tcalls, tobs, absm, lights,
                   light_calls>>
    /\ UNCHANGED AbsmVars
    /\ UNCHANGED LogVars

Build ==
    /\ IsNone(transition)
    /\ ui_queue' = ui_queue
    /\ TransitionCalled("build", 0, <<>>, TransitionBuild, <<>>)

\* A message from outside is routed to the widget.
RouteMessage ==
    /\ IsSome(transition)
    /\ \E message \in RoutedMessages :
           LET r == TransitionHandleRoutedMessage(transition[1], message)
           IN  /\ ui_queue' = ui_queue \o r.sent
               /\ TransitionCalled("message", 0, Some(message), r.self, r.sent)

\* The user interface takes the oldest message sent and routes it.
RouteQueued ==
    /\ IsSome(transition)
    /\ ui_queue /= <<>>
    /\ LET r == TransitionHandleRoutedMessage(transition[1], Head(ui_queue))
       IN  /\ ui_queue' = Tail(ui_queue) \o r.sent
           /\ TransitionCalled("message", 0, Some(Head(ui_queue)), r.self, r.sent)

Update ==
    /\ IsSome(transition)
    /\ ui_queue' = ui_queue
    /\ \E dt \in Dts :
           TransitionCalled("update", dt, <<>>, TransitionUpdate(transition[1], dt), <<>>)

NextTransition ==
    \/ Build
    \/ RouteMessage
    \/ RouteQueued
    \/ Update

SpecTransition == Init /\ [][NextTransition]_vars

(***************************************************************************)
(* A whole history: the editor constructs each command against the scene   *)
(* as it is and executes it at once; later every command is reverted, the  *)
(* youngest first, and then executed again, the oldest first.  No command  *)
(* is finalized.  tobs keeps the scene before the first command and, from  *)
(* the first revert on, the scene after the last one.                      *)
(***************************************************************************)
HistoryKinds == {"Move", "Link", "AddNode", "DeleteNode", "DeleteSubGraph", "SetPropertyValue"}

\* The nodes the user can pick: those shown in the scene tree, but the root.
Pickable(s) == Reachable(s.graph) \ {Root}

\* The commands of one kind the editor can construct on scene s.
HistoryCommands(kind, s, name) ==
    CASE kind = "Move" ->
             {MoveNodeCommandNew(h, Borrow(s.graph, h).position, <<1, 2, 3>>) :
                  h \in Pickable(s)}
      [] kind = "Link" ->
             UNION {{LinkNodesCommandNew(child, parent) :
                         parent \in Reachable(s.graph) \ Reach(s.graph, {child}, {})} :
                    child \in Pickable(s)}
      [] kind = "AddNode" ->
             {AddNodeCommandNew(NewNode(name), parent) : parent \in Reachable(s.graph)}
      [] kind = "DeleteNode" ->
             {DeleteNodeCommandNew(h) : h \in Pickable(s)}
      [] kind = "DeleteSubGraph" ->
             {DeleteSubGraphCommandNew(h) : h \in Pickable(s)}
      [] kind = "SetPropertyValue" ->
             UNION {{SetPropertyValueCommandNew(h, index, 7) :
                         index \in 0 .. (Len(Borrow(s.graph, h).properties) - 1)} :
                    h \in Pickable(s)}

HistoryFrame ==
    /\ UNCHANGED <<pending, dropped, obs, dropped_obs, made, tcmd, tcalls>>
    /\ EngineVarsUnchanged

\* The editor constructs a command and the stack executes it.
HDo ==
    /\ last.op \in {"init", "do"}
    /\ ~Panicked(scene)
    /\ Len(commands) < MaxHistory
    /\ \E kind \in HistoryKinds :
           \E c \in HistoryCommands(kind, scene, created + 1) :
               LET r == Execute(c, scene)
               IN  /\ scene' = r.scene
                   /\ commands' = Append(commands, r.self)
                   /\ created' = IF kind = "AddNode" THEN created + 1 ELSE created
    /\ top' = top + 1
    /\ last' = [op |-> "do", idx |-> top + 1]
    /\ UNCHANGED tobs
    /\ HistoryFrame

\* The stack reverts the command at the cursor.
HUndo ==
    /\ last.op \in {"do", "undo"}
    /\ ~Panicked(scene)
    /\ top > 0
    /\ LET r == Revert(commands[top], scene)
       IN  /\ scene' = r.scene
           /\ commands' = [commands EXCEPT ![top] = r.self]
    /\ top' = top - 1
    /\ last' = [op |-> "undo", idx |-> top]
    /\ tobs' = IF last.op = "do" THEN Append(tobs, scene) ELSE tobs
    /\ UNCHANGED created
    /\ HistoryFrame

\* With everything reverted, the stack executes the commands again.
HRedo ==
    /\ \/ last.op = "undo" /\ top = 0
       \/ last.op = "redo"
    /\ ~Panicked(scene)
    /\ top < Len(commands)
    /\ LET r == Execute(commands[top + 1], scene)
       IN  /\ scene' = r.scene
           /\ commands' = [commands EXCEPT ![top + 1] = r.self]
    /\ top' = top + 1
    /\ last' = [op |-> "redo", idx |-> top + 1]
    /\ UNCHANGED <<tobs, created>>
    /\ HistoryFrame

NextHistory ==
    \/ HDo
    \/ HUndo
    \/ HRedo

InitHistory ==
    /\ scene = EditScene
    /\ commands = <<>>
    /\ top = 0
    /\ pending = None
    /\ dropped = <<>>
    /\ obs = <<>>
    /\ dropped_obs = <<>>
    /\ created = 3
    /\ made = 0
    /\ last = [op |-> "init", idx |-> 0]
    /\ tcmd = None
    /\ tcalls = <<>>
    /\ tobs = <<EditScene>>
    /\ EngineIdle

SpecHistory == InitHistory /\ [][NextHistory]_vars

(***************************************************************************)
(* Helpers of the claims.                                                  *)
(***************************************************************************)
Children(g, h) == Range(Borrow(g, h).children)

Count(seq, x) == Cardinality({i \in 1..Len(seq) : seq[i] = x})

\* The slot of handle h is free for reuse: vacant and on the free stack.
SlotFree(g, h) ==
    /\ h.index \in Range(g.free_stack)
    /\ IsNone(g.pool[h.index].payload)

\* The slot of handle h went back to the pool and a later add took it.
SlotReused(g, h) == g.pool[h.index].generation > h.generation

\* The command last executed or reverted by the stack.
LastIs(ops, kind) ==
    /\ last.op \in ops
    /\ last.idx \in 1..Len(commands)
    /\ commands[last.idx].kind = kind

HoldsTicketAtDrop(i) ==
    \/ dropped[i].kind = "AddNode" /\ dropped_obs[i].was = "reverted"
    \/ dropped[i].kind = "DeleteNode" /\ dropped_obs[i].was = "executed"

NodeLiveAtDrop(i) ==
    \/ dropped[i].kind = "AddNode" /\ dropped_obs[i].was = "executed"
    \/ dropped[i].kind = "DeleteNode" /\ dropped_obs[i].was = "reverted"

(***************************************************************************)
(* C1.  AddNodeCommand::new(node, parent): right after execute the node is *)
(* live under a valid handle H and is a child of parent; right after a     *)
(* revert H resolves to no live node, is not among parent's children, and  *)
(* the command holds the ticket and the node; after finalize of the        *)
(* reverted command the ticket is released: the slot of H is free (on the  *)
(* free stack, vacant) until a later add takes it, which gives the slot a  *)
(* new generation.                                                         *)
(***************************************************************************)
C1_AddNodeLifecycle ==
    /\ LastIs({"do", "redo"}, "AddNode") =>
           LET c == commands[last.idx]
               o == obs[last.idx]
           IN  /\ c.handle # NONE
               /\ IsValidHandle(scene.graph, c.handle)
               /\ Borrow(scene.graph, c.handle).name = o.name
               /\ Borrow(scene.graph, c.handle).parent = o.arg
               /\ c.handle \in Children(scene.graph, o.arg)
    /\ LastIs({"undo"}, "AddNode") =>
           LET c == commands[last.idx]
               o == obs[last.idx]
           IN  /\ ~IsValidHandle(scene.graph, c.handle)
               /\ c.handle \notin Children(scene.graph, o.arg)
               /\ IsSome(c.ticket) /\ c.ticket[1].index = c.handle.index
               /\ IsSome(c.node) /\ c.node[1].name = o.name
    /\ \A i \in 1..Len(dropped) :
           (dropped[i].kind = "AddNode" /\ dropped_obs[i].was = "reverted") =>
               /\ IsNone(dropped[i].ticket)
               /\ ~IsValidHandle(scene.graph, dropped[i].handle)
               /\ \/ SlotFree(scene.graph, dropped[i].handle)
                  \/ SlotReused(scene.graph, dropped[i].handle)
               /\ last.op = "clear" => SlotFree(scene.graph, dropped[i].handle)

\* An AddNodeCommand was executed, reverted and finalized, and the add of
\* another node has reused the slot of H.
C1_Witness ==
    \E i \in 1..Len(dropped) :
        /\ dropped[i].kind = "AddNode"
        /\ dropped_obs[i].was = "reverted"
        /\ LET h == dropped[i].handle
           IN  /\ scene.graph.pool[h.index].generation = h.generation + 1
               /\ IsSome(scene.graph.pool[h.index].payload)
               /\ scene.graph.pool[h.index].payload[1].name # dropped_obs[i].obs.name

(***************************************************************************)
(* C2.  With no finalize (the command is still in the history), the handle *)
(* of an AddNodeCommand or DeleteNodeCommand equals the handle it had      *)
(* after its first execute, whatever was undone, redone or added in        *)
(* between; the node is live at that handle and at no other whenever it is *)
(* in the graph; no assertion fails.                                       *)
(***************************************************************************)
C2_HandleStable ==
    /\ ~Panicked(scene)
    /\ \A i \in 1..Len(commands) :
           commands[i].kind \in {"AddNode", "DeleteNode"} =>
               /\ commands[i].handle = obs[i].h0
               /\ \A h \in LiveHandles(scene.graph) :
                      Borrow(scene.graph, h).name = obs[i].name => h = obs[i].h0
               /\ (LastIs({"redo"}, "AddNode") /\ last.idx = i) =>
                      IsValidHandle(scene.graph, obs[i].h0)

\* An AddNodeCommand is re-executed (put back by its ticket) after other nodes
\* were added or removed while it was reverted.
C2_Witness ==
    /\ LastIs({"redo"}, "AddNode")
    /\ obs[last.idx].churn
    /\ IsValidHandle(scene.graph, commands[last.idx].handle)

(***************************************************************************)
(* C3.  A node is forgotten at most once and only by the finalize of a     *)
(* command that holds its ticket (the node detached): finalize of an       *)
(* AddNodeCommand after execute or of a DeleteNodeCommand after revert     *)
(* forgets nothing and leaves the scene unchanged; a repeated finalize is  *)
(* a no-op.                                                                *)
(***************************************************************************)
C3_ForgetOnce ==
    /\ \A n \in Range(scene.graph.forgotten) :
           /\ Count(scene.graph.forgotten, n) = 1
           /\ \A h \in LiveHandles(scene.graph) : Borrow(scene.graph, h).name # n
    /\ \A i \in 1..Len(dropped) :
           /\ HoldsTicketAtDrop(i) => dropped_obs[i].forgot = <<dropped_obs[i].obs.name>>
           /\ NodeLiveAtDrop(i) =>
                  /\ dropped_obs[i].forgot = <<>>
                  /\ dropped_obs[i].unchanged
           /\ dropped[i].kind \in {"AddNode", "DeleteNode"} =>
                  dropped_obs[i].again # "changed"

\* A DeleteNodeCommand never reverted was finalized (its node forgotten),
\* then finalized once more.
C3_Witness ==
    \E i \in 1..Len(dropped) :
        /\ dropped[i].kind = "DeleteNode"
        /\ dropped_obs[i].was = "executed"
        /\ dropped_obs[i].forgot = <<dropped_obs[i].obs.name>>
        /\ dropped_obs[i].again = "noop"

(***************************************************************************)
(* C4 as claimed.  From construction onward the ticket and node fields of  *)
(* AddNodeCommand and DeleteNodeCommand are both present or both absent.   *)
(***************************************************************************)
PairedOption(c) == IsSome(c.ticket) <=> IsSome(c.node)

IsNodeCommand(c) == c.kind \in {"AddNode", "DeleteNode"}

C4_Original ==
    /\ \A i \in 1..Len(commands) : IsNodeCommand(commands[i]) => PairedOption(commands[i])
    /\ \A i \in 1..Len(dropped) : IsNodeCommand(dropped[i]) => PairedOption(dropped[i])
    /\ (IsSome(pending) /\ IsNodeCommand(pending[1].cmd)) => PairedOption(pending[1].cmd)

(***************************************************************************)
(* C4 amended.  Between calls the ticket and node fields are both present  *)
(* or both absent for a DeleteNodeCommand from construction onward, and    *)
(* for an AddNodeCommand from its first execute onward (constructed and    *)
(* not yet executed it holds the node and no ticket).                      *)
(***************************************************************************)
C4_PairedAfterFirstExecute ==
    /\ \A i \in 1..Len(commands) : IsNodeCommand(commands[i]) => PairedOption(commands[i])
    /\ \A i \in 1..Len(dropped) : IsNodeCommand(dropped[i]) => PairedOption(dropped[i])
    /\ (IsSome(pending) /\ pending[1].cmd.kind = "DeleteNode") => PairedOption(pending[1].cmd)
    /\ (IsSome(pending) /\ pending[1].cmd.kind = "AddNode") =>
           IsNone(pending[1].cmd.ticket) /\ IsSome(pending[1].cmd.node)

\* A reverted AddNodeCommand in the history holds both its ticket and its node.
C4_Witness ==
    \E i \in 1..Len(commands) :
        /\ i > top
        /\ commands[i].kind = "AddNode"
        /\ IsSome(commands[i].ticket)
        /\ IsSome(commands[i].node)

(***************************************************************************)
(* C5.  DeleteNodeCommand: right after execute the command has recorded    *)
(* the parent the node had, the node is detached and its ticket held;      *)
(* right after the revert the node is live at its original handle, with    *)
(* the parent it had before the execute.                                   *)
(***************************************************************************)
C5_DeleteNodeRoundTrip ==
    /\ LastIs({"do", "redo"}, "DeleteNode") =>
           LET c == commands[last.idx]
               o == obs[last.idx]
           IN  /\ c.parent = Borrow(o.before, o.arg).parent
               /\ ~IsValidHandle(scene.graph, o.arg)
               /\ o.arg \notin Children(scene.graph, c.parent)
               /\ IsSome(c.ticket) /\ c.ticket[1].index = o.arg.index
               /\ IsSome(c.node) /\ c.node[1].name = o.name
    /\ LastIs({"undo"}, "DeleteNode") =>
           LET c == commands[last.idx]
               o == obs[last.idx]
           IN  /\ c.handle = o.arg
               /\ IsValidHandle(scene.graph, o.arg)
               /\ Borrow(scene.graph, o.arg).name = o.name
               /\ Borrow(scene.graph, o.arg).parent = Borrow(o.before, o.arg).parent
               /\ o.arg \in Children(scene.graph, Borrow(o.before, o.arg).parent)
               /\ Borrow(scene.graph, o.arg).children = Borrow(o.before, o.arg).children

\* A DeleteNodeCommand on a node whose parent is not the scene root was
\* executed and then reverted.
C5_Witness ==
    /\ LastIs({"undo"}, "DeleteNode")
    /\ Borrow(obs[last.idx].before, obs[last.idx].arg).parent # Root
    /\ IsValidHandle(scene.graph, obs[last.idx].arg)

(***************************************************************************)
(* C6 as claimed.  AddModelCommand moves nodes and animations in lockstep: *)
(* right after execute every node of the model and every animation it was  *)
(* constructed with is live in the scene; right after revert none of the   *)
(* nodes and none of those animations resolves.                            *)
(***************************************************************************)
AllLive(container, hs) == \A h \in hs : IsValidHandle(container, h)

NoneLive(container, hs) == \A h \in hs : ~IsValidHandle(container, h)

C6_Lockstep ==
    /\ LastIs({"do", "redo"}, "AddModel") =>
           /\ AllLive(scene.graph, obs[last.idx].nodes)
           /\ AllLive(scene.animations, Range(obs[last.idx].anims))
    /\ LastIs({"undo"}, "AddModel") =>
           /\ NoneLive(scene.graph, obs[last.idx].nodes)
           /\ NoneLive(scene.animations, Range(obs[last.idx].anims))

(***************************************************************************)
(* C7 as claimed.  After execute, revert, finalize of an AddModelCommand   *)
(* every pool slot of the model's nodes and of its animations is free for  *)
(* reuse.                                                                  *)
(***************************************************************************)
C7_ModelSlotsFree ==
    \A i \in 1..Len(dropped) :
        (dropped[i].kind = "AddModel" /\ dropped_obs[i].was = "reverted"
            /\ last.op = "clear") =>
            /\ \A h \in dropped_obs[i].obs.nodes : SlotFree(scene.graph, h)
            /\ \A h \in Range(dropped_obs[i].obs.anims) : SlotFree(scene.animations, h)

(***************************************************************************)
(* C8.  DeleteSubGraphCommand: right after execute the root and every      *)
(* descendant are detached and held by the command as one sub-graph; right *)
(* after the revert every node of the subtree is live at its original      *)
(* handle with the children and the parent it had before the execute, the  *)
(* root a child of its former parent; finalize forgets the nodes of the    *)
(* sub-graph, each once, only if the command still holds it.               *)
(***************************************************************************)
SubTree(g, r) == Reach(g, {r}, {})

HeldNames(sub_graph) ==
    {sub_graph.root.node.name}
        \cup {sub_graph.descendants[i].node.name : i \in 1..Len(sub_graph.descendants)}

C8_SubGraphRoundTrip ==
    /\ LastIs({"do", "redo"}, "DeleteSubGraph") =>
           LET c == commands[last.idx]
               o == obs[last.idx]
               t == SubTree(o.before, o.arg)
           IN  /\ NoneLive(scene.graph, t)
               /\ c.parent = Borrow(o.before, o.arg).parent
               /\ o.arg \notin Children(scene.graph, c.parent)
               /\ IsSome(c.sub_graph)
               /\ HeldNames(c.sub_graph[1]) = {Borrow(o.before, h).name : h \in t}
               /\ Len(c.sub_graph[1].descendants) + 1 = Cardinality(t)
    /\ LastIs({"undo"}, "DeleteSubGraph") =>
           LET c == commands[last.idx]
               o == obs[last.idx]
               t == SubTree(o.before, o.arg)
           IN  /\ IsNone(c.sub_graph)
               /\ AllLive(scene.graph, t)
               /\ \A h \in t :
                      /\ Borrow(scene.graph, h).name = Borrow(o.before, h).name
                      /\ Borrow(scene.graph, h).children = Borrow(o.before, h).children
                      /\ Borrow(scene.graph, h).parent = Borrow(o.before, h).parent
               /\ o.arg \in Children(scene.graph, Borrow(o.before, o.arg).parent)
    /\ \A i \in 1..Len(dropped) :
           dropped[i].kind = "DeleteSubGraph" =>
               LET o == dropped_obs[i].obs
                   names == {Borrow(o.before, h).name : h \in SubTree(o.before, o.arg)}
               IN  /\ dropped_obs[i].was = "executed" =>
                          /\ Range(dropped_obs[i].forgot) = names
                          /\ Len(dropped_obs[i].forgot) = Cardinality(names)
                   /\ dropped_obs[i].was = "reverted" =>
                          /\ dropped_obs[i].forgot = <<>>
                          /\ dropped_obs[i].unchanged

\* The subtree of five nodes was deleted and the deletion reverted.
C8_Witness ==
    /\ LastIs({"undo"}, "DeleteSubGraph")
    /\ Cardinality(SubTree(obs[last.idx].before, obs[last.idx].arg)) = 5
    /\ AllLive(scene.graph, SubTree(obs[last.idx].before, obs[last.idx].arg))

(***************************************************************************)
(* C9.  Move/Scale/RotateNodeCommand::new(node, old, new): in a call       *)
(* sequence execute, revert, execute, ... the node's field is `new` after  *)
(* every execute and `old` after every revert.                             *)
(***************************************************************************)
Alternating(calls) ==
    \A i \in 1..Len(calls) : calls[i] = IF i % 2 = 1 THEN "execute" ELSE "revert"

C9_AlternationAppliesNewOld ==
    (IsSome(tcmd) /\ tcalls # <<>> /\ Alternating(tcalls)) =>
        /\ ~Panicked(scene)
        /\ TField = IF tcalls[Len(tcalls)] = "execute" THEN tobs[1].new ELSE tobs[1].old

\* execute, revert, execute with old # new: the field is `new` again.
C9_Witness ==
    /\ IsSome(tcmd)
    /\ tcalls = <<"execute", "revert", "execute">>
    /\ tobs[1].old # tobs[1].new
    /\ TField = tobs[1].new

(***************************************************************************)
(* C10 as claimed.  Execute followed by revert leaves the node's field     *)
(* equal to the value it had immediately before the execute, for every old *)
(* and new value passed to the constructor.                                *)
(***************************************************************************)
ExecuteThenRevert ==
    /\ IsSome(tcmd)
    /\ Len(tcalls) >= 2
    /\ tcalls[Len(tcalls) - 1] = "execute"
    /\ tcalls[Len(tcalls)] = "revert"

\* The value of the field just before the next-to-last call.
BeforeExecute == tobs[Len(tcalls)]

C10_Original == ExecuteThenRevert => TField = BeforeExecute

(***************************************************************************)
(* C10 amended.  Execute followed by revert leaves the node's field equal  *)
(* to the value it had immediately before the execute, provided the old    *)
(* value passed to the constructor is the value the field had when the     *)
(* command was first called; in any case the revert after the first        *)
(* execute leaves the field at the constructor's old value.                *)
(***************************************************************************)
C10_RestoresWhenOldIsCurrent ==
    ExecuteThenRevert =>
        /\ tobs[1].old = tobs[2] => TField = BeforeExecute
        /\ Len(tcalls) = 2 => TField = tobs[1].old

\* A command constructed with the node's current value as old value and a
\* different new value, executed and reverted.
C10_Witness ==
    /\ IsSome(tcmd)
    /\ tcalls = <<"execute", "revert">>
    /\ tobs[1].old = tobs[2]
    /\ tobs[1].new # tobs[1].old
    /\ TField = tobs[2]

(***************************************************************************)
(* Helpers of the claims about one command (SpecEdit).                     *)
(***************************************************************************)
TCmd == tcmd[1]

\* The command as constructed, and the scene it was constructed on.
TCmd0 == tobs[1].cmd
TScene0 == tobs[1].scene

\* The scene and the command just before the latest call.
TSceneBefore == tobs[Len(tobs)].scene
TCmdBefore == tobs[Len(tobs)].cmd

IsExecuteOrRevert(call) == call \in {"execute", "revert"}

\* The execute and revert calls made so far, without the name and finalize
\* calls in between.
ExecRevertCalls == SelectSeq(tcalls, IsExecuteOrRevert)

TKind(kind) == IsSome(tcmd) /\ TCmd.kind = kind

\* The calls so far alternate execute, revert, execute, ... and there is one.
TAlternates == ExecRevertCalls # <<>> /\ Alternating(ExecRevertCalls)

LastCall == tcalls[Len(tcalls)]

LastExecRevert == ExecRevertCalls[Len(ExecRevertCalls)]

ParentOf(g, h) == Borrow(g, h).parent

\* What every call of LinkNodesCommand::link does, and where the child is
\* along an alternation.
LinkToggles ==
    /\ (tcalls # <<>> /\ IsExecuteOrRevert(LastCall) /\ ~Panicked(scene)) =>
           /\ ParentOf(scene.graph, TCmd.child) = TCmdBefore.parent
           /\ TCmd.parent = ParentOf(TSceneBefore.graph, TCmd.child)
    /\ TAlternates =>
           LET child == TCmd.child
               target == TCmd0.parent
               former == ParentOf(TScene0.graph, child)
               now == IF LastExecRevert = "execute" THEN target ELSE former
           IN  /\ ~Panicked(scene)
               /\ ParentOf(scene.graph, child) = now
               /\ Count(Borrow(scene.graph, now).children, child) = 1
               /\ TCmd.parent = IF LastExecRevert = "execute" THEN former ELSE target

FormerParentLostChild ==
    (TAlternates /\ LastExecRevert = "execute") =>
        TCmd.child \notin Children(scene.graph, ParentOf(TScene0.graph, TCmd.child))

(***************************************************************************)
(* C11 as claimed.  LinkNodesCommand::new(child, parent): each execute or  *)
(* revert records the child's current parent, links the child under the    *)
(* stored target and stores the recorded parent as the next target; after  *)
(* execute the child's parent is `parent` and the child is no longer a     *)
(* child of its former parent; after a following revert its parent is the  *)
(* former parent again, and alternation toggles between these two.         *)
(***************************************************************************)
C11_Original == TKind("Link") => (LinkToggles /\ FormerParentLostChild)

(***************************************************************************)
(* C11 amended.  As C11, except that after execute the child has left the  *)
(* children of its former parent only when `parent` is another node than   *)
(* the former parent: linking a child under the parent it already has      *)
(* leaves it a child of that parent (moved to the end of its children).    *)
(***************************************************************************)
C11_LinkToggles ==
    TKind("Link") =>
        /\ LinkToggles
        /\ TCmd0.parent # ParentOf(TScene0.graph, TCmd.child) => FormerParentLostChild

\* B, a child of A, was linked under C by execute and is back under A after
\* the revert.
C11_Witness ==
    /\ TKind("Link")
    /\ TCmd.child = NodeB
    /\ TCmd0.parent = NodeC
    /\ ExecRevertCalls = <<"execute", "revert">>
    /\ ParentOf(scene.graph, NodeB) = NodeA
    /\ NodeB \notin Children(scene.graph, NodeC)

ScriptOf(s, h) == Borrow(s.graph, h).script

(***************************************************************************)
(* C12 as claimed.  SetScriptCommand: execute followed by revert leaves    *)
(* the node with the same attached script (or absence of script) that it   *)
(* had immediately before the execute, also when the node carried a script *)
(* before the command was executed.  Scripts are compared by their         *)
(* serialized form.                                                        *)
(***************************************************************************)
C12_ScriptRestored ==
    (TKind("SetScript") /\ ExecuteThenRevert /\ ~Panicked(scene)) =>
        SaveOptScript(ScriptOf(scene, TCmd.handle))
            = SaveOptScript(ScriptOf(BeforeExecute.scene, TCmd.handle))

(***************************************************************************)
(* C13.  A SetScriptCommand constructed with script S (absent or present): *)
(* after execute, revert, execute, and after every further revert/execute  *)
(* pair, the node carries a script whose serialized form is that of S.     *)
(***************************************************************************)
C13_SerializedFormKept ==
    (TKind("SetScript") /\ TAlternates /\ LastExecRevert = "execute") =>
        /\ ~Panicked(scene)
        /\ SaveOptScript(ScriptOf(scene, TCmd.handle)) = SaveOptScript(TCmd0.state.script)

\* Two revert/execute pairs after the first execute: the script on the node
\* was read back from bytes (another object than S) and serializes as S does.
C13_Witness ==
    /\ TKind("SetScript")
    /\ tcalls = <<"execute", "revert", "execute", "revert", "execute">>
    /\ IsSome(TCmd0.state.script)
    /\ ScriptOf(scene, TCmd.handle) # TCmd0.state.script
    /\ SaveOptScript(ScriptOf(scene, TCmd.handle)) = SaveOptScript(TCmd0.state.script)

SetScriptTags == {"NonExecuted", "Executed", "Reverted"}

(***************************************************************************)
(* C14.  The state of a SetScriptCommand moves only NonExecuted ->         *)
(* Executed (execute), Executed -> Reverted (revert), Reverted -> Executed *)
(* (execute); NonExecuted is never re-entered; execute in state Executed   *)
(* and revert in state NonExecuted or Reverted panic; an alternation of    *)
(* execute and revert starting with execute never panics.                  *)
(***************************************************************************)
C14_StateMachine ==
    (TKind("SetScript") /\ tcalls # <<>>) =>
        LET from == TCmdBefore.state.tag
            to == TCmd.state.tag
        IN  /\ LastCall = "execute" =>
                   IF from \in {"NonExecuted", "Reverted"}
                   THEN ~Panicked(scene) /\ to = "Executed"
                   ELSE Panicked(scene)
            /\ LastCall = "revert" =>
                   IF from = "Executed"
                   THEN ~Panicked(scene) /\ to = "Reverted"
                   ELSE Panicked(scene)
            /\ LastCall \in {"name", "finalize"} => to = from /\ ~Panicked(scene)
            /\ to = "NonExecuted" => ExecRevertCalls = <<>>
            /\ TAlternates => ~Panicked(scene)

\* execute called on an executed command: the call panicked.
C14_Witness ==
    /\ TKind("SetScript")
    /\ tcalls = <<"execute", "revert", "execute", "execute">>
    /\ TCmdBefore.state.tag = "Executed"
    /\ Panicked(scene)

(***************************************************************************)
(* C15.  Undefined is never the state of a SetScriptCommand at rest: after *)
(* construction and after every execute or revert call that returned, the  *)
(* state is NonExecuted, Executed or Reverted.                             *)
(***************************************************************************)
C15_NeverUndefinedAtRest ==
    (TKind("SetScript") /\ ~Panicked(scene)) => TCmd.state.tag \in SetScriptTags

\* A revert has returned: the state it put in place during the call has been
\* replaced by Reverted.
C15_Witness ==
    /\ TKind("SetScript")
    /\ tcalls # <<>>
    /\ LastCall = "revert"
    /\ ~Panicked(scene)
    /\ TCmd.state.tag = "Reverted"

(***************************************************************************)
(* C16 as claimed.  Every SetScriptCommand::execute taken from state       *)
(* Reverted re-resolves the resource references of the deserialized script *)
(* before it returns: a script re-attached by redo carries no unresolved   *)
(* resource references.                                                    *)
(***************************************************************************)
C16_RedoResolvesResources ==
    (/\ TKind("SetScript")
     /\ tcalls # <<>>
     /\ LastCall = "execute"
     /\ TCmdBefore.state.tag = "Reverted"
     /\ ~Panicked(scene)
     /\ IsSome(ScriptOf(scene, TCmd.handle))) =>
        ScriptOf(scene, TCmd.handle)[1].resources = "resolved"

IsPropertyCommand == TKind("SetPropertyValue") \/ TKind("SetPropertyName")

PropertiesOf(s, h) == Borrow(s.graph, h).properties

\* The field of a property or of the command that the command exchanges.
SwappedField(c, r) == IF c.kind = "SetPropertyValue" THEN r.value ELSE r.name

\* properties with the exchanged field of the property at zero-based index i
\* set to x, and nothing else changed.
WithSwappedField(c, properties, i, x) ==
    IF c.kind = "SetPropertyValue"
    THEN [properties EXCEPT ![i + 1].value = x]
    ELSE [properties EXCEPT ![i + 1].name = x]

(***************************************************************************)
(* C17.  SetPropertyValueCommand and SetPropertyNameCommand on (node,      *)
(* index): execute then revert restores exactly the prior value (name) at  *)
(* that index; each call changes only that one field of that one property: *)
(* the length and order of the node's property list, every other property  *)
(* and the rest of the scene are unchanged.                                *)
(***************************************************************************)
C17_PropertySwapFrame ==
    IsPropertyCommand =>
        /\ ~Panicked(scene)
        /\ (tcalls # <<>> /\ IsExecuteOrRevert(LastCall)) =>
               LET before == PropertiesOf(TSceneBefore, TCmd.handle)
                   i == TCmd.index
               IN  /\ PropertiesOf(scene, TCmd.handle)
                          = WithSwappedField(TCmd, before, i, SwappedField(TCmd, TCmdBefore))
                   /\ SwappedField(TCmd, TCmd) = SwappedField(TCmd, before[i + 1])
                   /\ scene = WithGraph(TSceneBefore,
                                       SetPayload(TSceneBefore.graph, TCmd.handle,
                                           [Borrow(TSceneBefore.graph, TCmd.handle) EXCEPT
                                                !.properties = PropertiesOf(scene, TCmd.handle)]))
                   /\ TCmd.index = TCmdBefore.index /\ TCmd.handle = TCmdBefore.handle
        /\ ExecuteThenRevert => scene = BeforeExecute.scene

\* The value of the second property was changed by execute and is back after
\* the revert, the first property untouched.
C17_Witness ==
    /\ TKind("SetPropertyValue")
    /\ TCmd.index = 1
    /\ tcalls = <<"execute", "revert">>
    /\ PropertiesOf(TSceneBefore, NodeA)[2].value = 7
    /\ PropertiesOf(scene, NodeA) = <<[name |-> "p", value |-> 1], [name |-> "q", value |-> 2]>>

\* The live script ScriptDataBlobCommand::swap makes of a blob.
ScriptFromBlob(data) == Some(RestoreResources(DeserializeScript(data)[1]))

(***************************************************************************)
(* C18.  ScriptDataBlobCommand with (old_value, new_value): along an       *)
(* alternation starting with execute, each execute replaces the node's     *)
(* script by the script deserialized from new_value and each revert by the *)
(* one deserialized from old_value, with its resources re-resolved by the  *)
(* call; on a node without a script the call panics and attaches nothing.  *)
(***************************************************************************)
C18_BlobSwap ==
    TKind("ScriptDataBlob") =>
        /\ (TAlternates /\ IsSome(ScriptOf(TScene0, TCmd.handle))) =>
               /\ ~Panicked(scene)
               /\ ScriptOf(scene, TCmd.handle)
                      = ScriptFromBlob(IF LastExecRevert = "execute"
                                       THEN TCmd0.new_value ELSE TCmd0.old_value)
               /\ ScriptOf(scene, TCmd.handle)[1].resources = "resolved"
        /\ (tcalls # <<>> /\ IsExecuteOrRevert(LastCall)
                /\ IsNone(ScriptOf(TSceneBefore, TCmd.handle))) =>
               /\ Panicked(scene)
               /\ IsNone(ScriptOf(scene, TCmd.handle))

\* Node A carried a script; after execute and revert it carries the script
\* of the old blob, which is another one than that of the new blob.
C18_Witness ==
    /\ TKind("ScriptDataBlob")
    /\ TCmd.handle = NodeA
    /\ tcalls = <<"execute", "revert">>
    /\ TCmd0.old_value # TCmd0.new_value
    /\ ScriptOf(TSceneBefore, NodeA) = ScriptFromBlob(TCmd0.new_value)
    /\ ScriptOf(scene, NodeA) = ScriptFromBlob(TCmd0.old_value)

\* Every command the editor holds: the history, the command waiting for the
\* stack, and the commands the stack has just drained.
AllCommands ==
    commands \o (IF IsSome(pending) THEN <<pending[1].cmd>> ELSE <<>>) \o dropped

\* The nodes a command holds outside the pool: the name of each and the index
\* of the ticket held with it (0: no ticket).
Holdings(c) ==
    IF c.kind \in {"AddNode", "DeleteNode"} THEN
        IF IsSome(c.node)
        THEN <<[name |-> c.node[1].name,
                index |-> IF IsSome(c.ticket) THEN c.ticket[1].index ELSE 0]>>
        ELSE <<>>
    ELSE IF c.kind \in {"AddModel", "DeleteSubGraph"} /\ IsSome(c.sub_graph) THEN
        <<[name |-> c.sub_graph[1].root.node.name,
           index |-> c.sub_graph[1].root.ticket.index]>>
        \o [i \in 1..Len(c.sub_graph[1].descendants) |->
               [name |-> c.sub_graph[1].descendants[i].node.name,
                index |-> c.sub_graph[1].descendants[i].ticket.index]]
    ELSE <<>>

\* How many times node n is held by the commands, is live in the pool, has
\* been forgotten.
HeldCount(n) ==
    Cardinality(UNION {{<<i, j>> : j \in {k \in 1..Len(Holdings(AllCommands[i])) :
                                             Holdings(AllCommands[i])[k].name = n}} :
                       i \in 1..Len(AllCommands)})

LiveCount(n) ==
    Cardinality({i \in 1..Len(scene.graph.pool) :
                    /\ IsSome(scene.graph.pool[i].payload)
                    /\ scene.graph.pool[i].payload[1].name = n})

ForgottenCount(n) == Count(scene.graph.forgotten, n)

\* A held ticket keeps its slot vacant and off the free stack.
TicketReserved(index) ==
    /\ index \in 1..Len(scene.graph.pool)
    /\ IsNone(scene.graph.pool[index].payload)
    /\ index \notin Range(scene.graph.free_stack)

(***************************************************************************)
(* C19.  Ownership of nodes is exclusive under the undo stack: every node  *)
(* is live in the pool, or held detached by exactly one command, or        *)
(* forgotten, and never two of these at once; a node taken out of the pool *)
(* is held together with its ticket, whose slot stays vacant and reserved; *)
(* only an AddNodeCommand that has not been executed holds a node without  *)
(* a ticket (the node has not been in the pool yet).                       *)
(***************************************************************************)
C19_ExclusiveOwnership ==
    /\ ~Panicked(scene)
    /\ \A n \in 0..created : LiveCount(n) + HeldCount(n) + ForgottenCount(n) = 1
    /\ \A i \in 1..Len(AllCommands) :
           \A j \in 1..Len(Holdings(AllCommands[i])) :
               LET held == Holdings(AllCommands[i])[j]
               IN  IF held.index = 0
                   THEN AllCommands[i].kind = "AddNode" /\ AllCommands[i].handle = NONE
                   ELSE TicketReserved(held.index)

\* An AddNodeCommand and a DeleteNodeCommand on the same handle, both undone:
\* the node is held by the AddNodeCommand alone.
C19_Witness ==
    /\ Len(commands) = 2
    /\ top = 0
    /\ commands[1].kind = "AddNode"
    /\ commands[2].kind = "DeleteNode"
    /\ commands[1].handle = commands[2].handle
    /\ IsSome(commands[1].node) /\ IsSome(commands[1].ticket)
    /\ IsNone(commands[2].node) /\ IsNone(commands[2].ticket)
    /\ ~IsValidHandle(scene.graph, commands[1].handle)

\* The calls of name made so far, by position in tcalls.
NameCalls == {i \in 1..Len(tcalls) : tcalls[i] = "name"}

\* The label the i-th call returned.
LabelAt(i) == tobs[i + 1].label

(***************************************************************************)
(* C20.  name() of every command of the catalog changes neither the scene  *)
(* nor the command and returns the same label at every point of the        *)
(* command's life; for AddNodeCommand the label is "Add Node <name>" with  *)
(* the node's name at construction, also after revert has detached the     *)
(* node and finalize has forgotten it.                                     *)
(***************************************************************************)
C20_NameIsPureAndStable ==
    IsSome(tcmd) =>
        /\ (tcalls # <<>> /\ LastCall = "name") =>
               /\ scene = TSceneBefore
               /\ TCmd = TCmdBefore
        /\ \A i \in NameCalls : \A j \in NameCalls : LabelAt(i) = LabelAt(j)
        /\ TCmd.kind = "AddNode" =>
               \A i \in NameCalls : LabelAt(i) = <<"Add Node", TCmd0.node[1].name>>

\* The AddNodeCommand was executed, reverted and finalized: its node is
\* forgotten, and name still returns the label made at construction.
C20_Witness ==
    /\ TKind("AddNode")
    /\ tcalls = <<"name", "execute", "revert", "finalize", "name">>
    /\ IsNone(TCmd.node)
    /\ TCmd0.node[1].name \in Range(scene.graph.forgotten)
    /\ LabelAt(5) = <<"Add Node", TCmd0.node[1].name>>
    /\ LabelAt(1) = LabelAt(5)

(***************************************************************************)
(* Helpers of the logger's claims.                                         *)
(***************************************************************************)
IsWriteCall(c) == c.op \in WriteOps

\* A text or a LogMessage content carries what call c was given.
Mentions(text, c) == \E i \in 1 .. Len(text) : text[i] = c.msg[1]

\* How many LogMessages of call c listener l was sent, and how many texts of
\* call c a sequence of outputs holds.
Deliveries(l, c) ==
    Cardinality({i \in 1 .. Len(channels[l]) :
                     /\ channels[l][i].kind = c.kind
                     /\ Mentions(channels[l][i].content, c)})

Outputs(out, c) == Cardinality({i \in 1 .. Len(out) : Mentions(out[i], c)})

\* The verbosity the run started with: no call of the run changes it before
\* the first set_verbosity takes the mutex.
InitialVerbosity ==
    IF log_calls = <<>> THEN log.verbosity ELSE log_calls[1].verbosity

\* The verbosity the j-th call finds: the kind of the latest set_verbosity
\* before it, the initial one when there is none.
VerbosityInForce(j) ==
    LET sets == {i \in 1 .. (j - 1) : log_calls[i].op = "set_verbosity"}
    IN  IF sets = {} THEN InitialVerbosity
        ELSE log_calls[CHOOSE i \in sets : \A k \in sets : k <= i].kind

\* The j-th call's kind is at or above the verbosity it found.
AcceptedAt(j) == log_calls[j].kind >= log_calls[j].verbosity

\* C21: a message passed to write, writeln, info, warn or err is delivered
\* to every registered listener and written to stdout and to the log file
\* exactly when its kind is at or above the verbosity in force at the call;
\* a message below it is delivered nowhere, and set_verbosity changes
\* nothing about the messages before it.
C21_DeliveredIffAccepted ==
    \A j \in 1 .. Len(log_calls) :
        LET c == log_calls[j]
        IN  IsWriteCall(c) =>
                /\ c.verbosity = VerbosityInForce(j)
                /\ ~AcceptedAt(j) =>
                       /\ \A l \in Senders : Deliveries(l, c) = 0
                       /\ Outputs(stdout, c) = 0
                       /\ Outputs(log.file, c) = 0
                /\ (AcceptedAt(j) /\ c.returned) =>
                       /\ \A l \in c.listeners : Deliveries(l, c) = 1
                       /\ \A l \in Senders \ c.listeners : Deliveries(l, c) = 0
                       /\ Outputs(stdout, c) = 1
                       /\ Outputs(log.file, c) = 1

\* A message was dropped by a verbosity raised before it, and a message of
\* the kind of the verbosity itself was delivered to two listeners.
C21_Witness ==
    /\ Len(log_calls) = 2
    /\ log_calls[1].op = "set_verbosity"
    /\ log_calls[1].kind = Warning
    /\ log_calls[2].op \in {"write", "info"}
    /\ log_calls[2].returned
    /\ Cardinality(log_calls[2].listeners) = 2

\* The add_listener calls that have returned, and the write calls that took
\* the mutex after call i and have returned.
RegisteredAt(i) == log_calls[i].op = "add_listener" /\ log_calls[i].returned

LaterWrites(i) ==
    {j \in (i + 1) .. Len(log_calls) : IsWriteCall(log_calls[j]) /\ log_calls[j].returned}

\* C22: after add_listener(l) the listener l receives a copy of every
\* message passed into the log afterwards, whatever the verbosity
\* (the contract stated by the doc comment of add_listener, log.rs:138).
C22_Original ==
    \A i \in 1 .. Len(log_calls) :
        RegisteredAt(i) =>
            \A j \in LaterWrites(i) : Deliveries(log_calls[i].listener, log_calls[j]) = 1

\* The threads inside the critical section of a Log call.
InCall == {t \in Threads : threads[t].pc \in {"send", "unlock"}}

\* The position of call c's message in channel l and in stdout (0: absent).
PositionIn(l, c) ==
    LET at == {i \in 1 .. Len(channels[l]) : Mentions(channels[l][i].content, c)}
    IN  IF at = {} THEN 0 ELSE CHOOSE i \in at : TRUE

PositionOut(c) ==
    LET at == {i \in 1 .. Len(stdout) : Mentions(stdout[i], c)}
    IN  IF at = {} THEN 0 ELSE CHOOSE i \in at : TRUE

\* Call c has begun, or has completed, its fan-out and output.
FanOutBegun(c) ==
    \/ \E l \in Senders : Deliveries(l, c) > 0
    \/ Outputs(stdout, c) > 0
    \/ Outputs(log.file, c) > 0

FanOutComplete(c) ==
    /\ \A l \in c.listeners : Deliveries(l, c) = 1
    /\ Outputs(stdout, c) = 1
    /\ Outputs(log.file, c) = 1

AcceptedWrites == {j \in 1 .. Len(log_calls) : IsWriteCall(log_calls[j]) /\ AcceptedAt(j)}

\* C23: concurrent writes are serialized.  At most one call is inside the
\* logger; the fan-out and output of one message are complete before those
\* of the next begin; every listener registered before two writes receives
\* their messages in the order of the calls, which is also the order on
\* stdout; an accepted message has reached every registered listener when
\* its call returns.
C23_WritesSerialized ==
    /\ Cardinality(InCall) <= 1
    /\ \A t \in InCall : mutex = t
    /\ \A i \in AcceptedWrites, j \in AcceptedWrites :
           i < j =>
               LET a == log_calls[i]
                   b == log_calls[j]
               IN  /\ FanOutBegun(b) => FanOutComplete(a)
                   /\ \A l \in a.listeners \cap b.listeners :
                          PositionIn(l, b) > 0 =>
                              /\ PositionIn(l, a) > 0
                              /\ PositionIn(l, a) < PositionIn(l, b)
                   /\ PositionOut(b) > 0 =>
                          (PositionOut(a) > 0 /\ PositionOut(a) < PositionOut(b))
    /\ \A j \in AcceptedWrites :
           log_calls[j].returned => FanOutComplete(log_calls[j])

\* A thread is in the middle of a fan-out to two listeners (one sent, one to
\* go) while the other thread waits for the mutex with an accepted write.
C23_Witness ==
    \E t \in Threads, u \in Threads :
        /\ t /= u
        /\ threads[t].pc = "send"
        /\ threads[t].i = 2
        /\ Len(log.listeners) = 2
        /\ threads[u].pc = "lock"
        /\ threads[u].op \in WriteOps
        /\ Accepts(threads[u].kind, log.verbosity)

\* The calls whose message a sequence of outputs, or a channel, holds.
WrittenTo(out) == {j \in AcceptedWrites : Outputs(out, log_calls[j]) = 1}

SentTo(l) == {j \in AcceptedWrites : Deliveries(l, log_calls[j]) = 1}

\* C24: Log::verify never fails.  verify(Ok(..)) returns at once and logs
\* nothing; verify(Err(e)) logs exactly one message of kind Error, which is
\* accepted under every verbosity, delivered to every registered listener
\* and written to stdout and to the file, and the call then returns.
C24_VerifyLogsErrOnly ==
    /\ \A j \in 1 .. Len(log_calls) :
           LET c == log_calls[j]
           IN  /\ c.op = "verify_ok" => c.returned
               /\ c.op = "verify" =>
                      /\ c.kind = Error
                      /\ AcceptedAt(j)
                      /\ c.returned =>
                             /\ \A l \in c.listeners : Deliveries(l, c) = 1
                             /\ Outputs(stdout, c) = 1
                             /\ Outputs(log.file, c) = 1
                      /\ ~c.returned =>
                             /\ threads[c.thread].call = j
                             /\ threads[c.thread].pc \in {"send", "unlock"}
                             /\ mutex = c.thread
    /\ Len(stdout) = Cardinality(WrittenTo(stdout))
    /\ Len(log.file) = Cardinality(WrittenTo(log.file))
    /\ \A l \in Senders : Len(channels[l]) = Cardinality(SentTo(l))

\* With the verbosity at Error, a verify(Ok) logged nothing and a
\* verify(Err) reached both listeners and stdout.
C24_Witness ==
    /\ Len(log_calls) = 2
    /\ InitialVerbosity = Error
    /\ log_calls[1].op = "verify_ok"
    /\ log_calls[2].op = "verify"
    /\ log_calls[2].returned
    /\ log_calls[2].listeners = Senders
    /\ Len(stdout) = 1

\* The calls C30 is about, and the LogMessages and texts a call produced.
IsPlainWrite(c) == c.op \in {"write", "writeln", "info", "warn", "err"}

ContentsAt(l, c) ==
    {channels[l][i].content : i \in {k \in 1 .. Len(channels[l]) :
                                         Mentions(channels[l][k].content, c)}}

TextsOf(out, c) == {out[i] : i \in {k \in 1 .. Len(out) : Mentions(out[k], c)}}

PlainWritesDone ==
    {j \in AcceptedWrites : IsPlainWrite(log_calls[j]) /\ log_calls[j].returned}

\* C30 as stated: the content a listener receives is the message exactly as
\* the caller passed it, and stdout and the file get the kind prefix
\* followed by the message.
C30_Original ==
    \A j \in PlainWritesDone :
        LET c == log_calls[j]
        IN  /\ \A l \in c.listeners : ContentsAt(l, c) = {c.msg}
            /\ TextsOf(stdout, c) = {<<AsStr(c.kind)>> \o c.msg}
            /\ TextsOf(log.file, c) = {<<AsStr(c.kind)>> \o c.msg}

\* What the logger makes of the source message: write passes it on as it
\* is, writeln, info, warn and err end it with a newline.
Expected(c) == IF c.op = "write" THEN c.msg ELSE c.msg \o <<"\n">>

\* C30 amended: the content a listener receives carries no kind prefix; it
\* is the message exactly as passed for write, and the message followed by
\* one newline for writeln, info, warn and err.  The text written to stdout
\* and to the file is the kind prefix followed by that content.
C30_ContentIsMessageOrLine ==
    \A j \in PlainWritesDone :
        LET c == log_calls[j]
        IN  /\ \A l \in c.listeners : ContentsAt(l, c) = {Expected(c)}
            /\ TextsOf(stdout, c) = {<<AsStr(c.kind)>> \o Expected(c)}
            /\ TextsOf(log.file, c) = {<<AsStr(c.kind)>> \o Expected(c)}

\* A warn(m) and a write(m') have both reached a listener and stdout.
C30_Witness ==
    /\ Len(log_calls) = 2
    /\ PlainWritesDone = {1, 2}
    /\ log_calls[1].op = "warn"
    /\ log_calls[2].op = "write"
    /\ log_calls[1].listeners /= {}
    /\ Len(stdout) = 2

\* The machines of a scene that carry a resource, with the resource.
AssignedMachines(s) ==
    LET m == s.animation_machines
    IN  {<<i, m.pool[i].payload[1].resource>> :
             i \in {k \in 1 .. Len(m.pool) :
                        IsSome(m.pool[k].payload) /\ IsSome(m.pool[k].payload[1].resource)}}

C25_WitnessDropped ==
    /\ Len(absm) = 2
    /\ absm[1].result.ok
    /\ ~absm[2].completed
    /\ absm[2].after.animations /= absm[2].before.animations
    /\ AssignedMachines(scene) = AssignedMachines(absm[1].after)

\* The i-th command of the history holds the ticket of its handle.
HoldsTicket(i) ==
    /\ commands[i].kind \in {"AddNode", "DeleteNode"}
    /\ IsSome(commands[i].ticket)

\* The slot of index idx is given back by the step: it is on the free stack
\* afterwards, or a later add has already taken it under a new generation.
ReleasedByStep(idx) ==
    \/ idx \in Range(scene'.graph.free_stack)
    \/ scene'.graph.pool[idx].generation /= scene.graph.pool[idx].generation

\* C26: while a command holds the ticket of H (an AddNodeCommand that was
\* reverted, a DeleteNodeCommand that was executed) the slot of H stays
\* reserved: H resolves to no node, the slot is vacant and off the free
\* stack, and no live node, added by a command or directly, sits in it.
\* A step gives the slot back only by finalizing the command (the stack
\* dropping it on a new command or on clear), never by an undo, a redo or
\* an add.
C26_TicketReservesSlot ==
    /\ [](\A i \in 1 .. Len(commands) :
              HoldsTicket(i) =>
                  LET c == commands[i]
                      idx == c.ticket[1].index
                  IN  /\ idx = c.handle.index
                      /\ IF c.kind = "AddNode" THEN i > top ELSE i <= top
                      /\ ~IsValidHandle(scene.graph, c.handle)
                      /\ TicketReserved(idx)
                      /\ \A h \in LiveHandles(scene.graph) : h.index /= idx)
    /\ [][\A i \in 1 .. Len(commands) :
              (HoldsTicket(i) /\ ReleasedByStep(commands[i].ticket[1].index)) =>
                  /\ last'.op \in {"do", "clear"}
                  /\ \E k \in 1 .. Len(dropped') :
                         /\ dropped'[k].kind = commands[i].kind
                         /\ dropped'[k].handle = commands[i].handle
                         /\ IsNone(dropped'[k].ticket)
                         /\ dropped_obs'[k].forgot /= <<>>]_vars

\* A reverted AddNodeCommand holds the ticket of its handle and the editor
\* has since added another node, which went to another slot.
C26_Witness ==
    /\ Len(commands) = 1
    /\ top = 0
    /\ HoldsTicket(1)
    /\ commands[1].kind = "AddNode"
    /\ last.op = "add"
    /\ \E h \in LiveHandles(scene.graph) :
           /\ Borrow(scene.graph, h).name = created
           /\ h.index /= commands[1].ticket[1].index

\* The commands whose execute and revert are one swap, the value such a
\* command holds and the node field it exchanges it with.
IsSwapCommand ==
    /\ IsSome(tcmd)
    /\ TCmd.kind \in {"SetPropertyValue", "SetPropertyName"} \cup NodeCommandKinds

SwappedNodeField(kind) ==
    CASE kind = "SetPostRotation" -> "post_rotation"
      [] kind = "SetPreRotation" -> "pre_rotation"
      [] kind = "SetRotationOffset" -> "rotation_offset"
      [] kind = "SetRotationPivot" -> "rotation_pivot"
      [] kind = "SetScaleOffset" -> "scaling_offset"
      [] kind = "SetScalePivot" -> "scaling_pivot"

HeldValue(c) == IF c.kind = "SetPropertyName" THEN c.name ELSE c.value

NodeValue(s, c) ==
    IF c.kind \in NodeCommandKinds
    THEN Borrow(s.graph, c.handle)[SwappedNodeField(c.kind)]
    ELSE SwappedField(c, PropertiesOf(s, c.handle)[c.index + 1])

\* The last two calls were both execute or revert, in any combination.
TwoSwapsInARow ==
    /\ Len(tcalls) >= 2
    /\ IsExecuteOrRevert(tcalls[Len(tcalls) - 1])
    /\ IsExecuteOrRevert(tcalls[Len(tcalls)])

(***************************************************************************)
(* C27.  The swap commands (SetPropertyValue, SetPropertyName,             *)
(* SetPostRotation, SetPreRotation, SetRotationOffset, SetRotationPivot,   *)
(* SetScaleOffset, SetScalePivot) are involutions from any state: one call *)
(* of execute or revert exchanges the node's field with the value the      *)
(* command holds, and any two successive calls, in either order, leave the *)
(* scene and the command exactly as they were before the two.              *)
(***************************************************************************)
C27_SwapIsInvolution ==
    IsSwapCommand =>
        /\ ~Panicked(scene)
        /\ (tcalls # <<>> /\ IsExecuteOrRevert(LastCall)) =>
               /\ NodeValue(scene, TCmd) = HeldValue(TCmdBefore)
               /\ HeldValue(TCmd) = NodeValue(TSceneBefore, TCmdBefore)
        /\ TwoSwapsInARow =>
               /\ scene = tobs[Len(tobs) - 1].scene
               /\ TCmd = tobs[Len(tobs) - 1].cmd

\* A SetScalePivotCommand holding <<4, 5, 6>> was reverted twice from a
\* node whose pivot is <<0, 0, 0>>: in between the pivot was <<4, 5, 6>>.
C27_Witness ==
    /\ TKind("SetScalePivot")
    /\ tcalls = <<"revert", "revert">>
    /\ HeldValue(TCmd) = <<4, 5, 6>>
    /\ NodeValue(scene, TCmd) = Vec0
    /\ NodeValue(TSceneBefore, TCmd) = <<4, 5, 6>>
    /\ HeldValue(TCmdBefore) = Vec0

\* The old and new fields of a Move, Scale or Rotate command.
OldOf(c) ==
    CASE c.kind = "Move" -> c.old_position
      [] c.kind = "Scale" -> c.old_scale
      [] c.kind = "Rotate" -> c.old_rotation

NewOf(c) ==
    CASE c.kind = "Move" -> c.new_position
      [] c.kind = "Scale" -> c.new_scale
      [] c.kind = "Rotate" -> c.new_rotation

OddCalls == Len(tcalls) % 2 = 1

(***************************************************************************)
(* C28.  For MoveNodeCommand, ScaleNodeCommand and RotateNodeCommand       *)
(* execute and revert are the same operation: from every state both give   *)
(* the same command fields and the same scene.  What a call applies        *)
(* depends only on how many calls came before it, not on their names: the  *)
(* node's field is `new` after the first, third, ... call and `old` after  *)
(* the second, fourth, ..., and the command's two fields are exchanged by  *)
(* every call.                                                             *)
(***************************************************************************)
C28_ExecuteIsRevert ==
    IsSome(tcmd) =>
        /\ ~Panicked(scene)
        /\ Execute(tcmd[1], scene) = Revert(tcmd[1], scene)
        /\ tcalls # <<>> =>
               TField = IF OddCalls THEN tobs[1].new ELSE tobs[1].old
        /\ OldOf(tcmd[1]) = IF OddCalls THEN tobs[1].new ELSE tobs[1].old
        /\ NewOf(tcmd[1]) = IF OddCalls THEN tobs[1].old ELSE tobs[1].new

\* revert, execute, execute on a RotateNodeCommand with old # new: the third
\* call applied `new`, as the first did.
C28_Witness ==
    /\ IsSome(tcmd)
    /\ tcmd[1].kind = "Rotate"
    /\ tcalls = <<"revert", "execute", "execute">>
    /\ tobs[1].old # tobs[1].new
    /\ TField = tobs[1].new
    /\ tobs[3] = tobs[1].new
    /\ tobs[4] = tobs[1].old

\* The nodes of the chain are linked as the import linked them: the first
\* under the scene's root, each other one under the one before, and among
\* the nodes of the chain each has the next one as its only child.
ChainIntact(g, chain) ==
    \A i \in 1 .. Len(chain) :
        /\ IsValidHandle(g, chain[i])
        /\ Borrow(g, chain[i]).parent = IF i = 1 THEN Root ELSE chain[i - 1]
        /\ Children(g, chain[i]) \cap Range(chain)
               = IF i < Len(chain) THEN {chain[i + 1]} ELSE {}
        /\ Count(Borrow(g, chain[i]).children, chain[i]) = 0
        /\ i < Len(chain) => Count(Borrow(g, chain[i]).children, chain[i + 1]) = 1
        /\ Borrow(g, chain[i]).name = Borrow(g, chain[1]).name + (i - 1)

(***************************************************************************)
(* C29.  AddModelCommand under the stack (execute, revert, execute, ...):  *)
(* after every execute `model` is the handle the first execute returned,   *)
(* the root of the imported chain; every node of the model is live at its  *)
(* original handle with its original parent and children, the root under   *)
(* the scene's root; and a finalize that follows an execute forgets no     *)
(* node and no animation and leaves the scene as it is.                    *)
(***************************************************************************)
C29_ModelHandlesStable ==
    /\ LastIs({"do", "redo"}, "AddModel") =>
           LET c == commands[last.idx]
               o == obs[last.idx]
           IN  /\ ~Panicked(scene)
               /\ c.model = o.h0
               /\ c.model = o.chain[1]
               /\ IsNone(c.sub_graph)
               /\ c.animations_container = <<>>
               /\ ChainIntact(scene.graph, o.chain)
               /\ Count(Borrow(scene.graph, Root).children, c.model) = 1
               /\ o.nodes \subseteq SubTree(scene.graph, c.model)
    /\ \A i \in 1 .. Len(dropped) :
           (dropped[i].kind = "AddModel" /\ dropped_obs[i].was = "executed") =>
               /\ dropped_obs[i].forgot = <<>>
               /\ dropped_obs[i].unchanged
               /\ IsNone(dropped[i].sub_graph)
               /\ dropped[i].animations_container = <<>>

\* A model of two nodes was added, undone and redone.
C29_Witness ==
    /\ LastIs({"redo"}, "AddModel")
    /\ Len(obs[last.idx].chain) = 2
    /\ ChainIntact(scene.graph, obs[last.idx].chain)
    /\ commands[last.idx].model = obs[last.idx].h0

\* A model added, undone and redone was then finalized by the stack's clear.
C29_WitnessFinalize ==
    \E i \in 1 .. Len(dropped) :
        /\ dropped[i].kind = "AddModel"
        /\ dropped_obs[i].was = "executed"
        /\ dropped_obs[i].obs.churn

(***************************************************************************)
(* Claims about the light nodes (SpecLight).                               *)
(***************************************************************************)
SetRadiusCalls(who) ==
    {k \in 1 .. Len(light_calls) :
         light_calls[k].op = "set_radius" /\ light_calls[k].who = who}

LastSetRadius(who) ==
    CHOOSE k \in SetRadiusCalls(who) : \A j \in SetRadiusCalls(who) : j <= k

\* The calls of reset_inheritable_properties on a light after call k.
ResetsAfter(who, k) ==
    {j \in k + 1 .. Len(light_calls) :
         light_calls[j].op = "reset" /\ light_calls[j].who = who}

\* C31: PointLight::set_radius(r) stores the absolute value of r.  Once
\* set_radius was called on a light, radius() is |r| of the last such call
\* and is not negative, whatever calls of the other setters and of inherit
\* came after it, as long as the inheritable properties were not reset since
\* (a reset lets a later inherit copy the parent's radius); each call leaves
\* everything but the radius of that light as it was.
C31_SetRadiusStoresAbs ==
    /\ \A who \in LightIds :
           (SetRadiusCalls(who) /= {} /\ ResetsAfter(who, LastSetRadius(who)) = {}) =>
               /\ PointLightRadius(lights[who]) = Abs(light_calls[LastSetRadius(who)].arg)
               /\ PointLightRadius(lights[who]) >= 0
    /\ \A k \in 1 .. Len(light_calls) :
           light_calls[k].op = "set_radius" =>
               LET c == light_calls[k]
               IN  /\ c.after[c.who].radius = [value |-> Abs(c.arg), modified |-> TRUE]
                   /\ c.after = [c.before EXCEPT ![c.who].radius = c.after[c.who].radius]

\* C31 witness: set_radius with a negative argument on the child, then an
\* inherit from a parent with another radius: the child keeps |r|.
C31_Witness ==
    /\ Len(light_calls) >= 2
    /\ light_calls[1].op = "set_radius"
    /\ light_calls[1].who = "child"
    /\ light_calls[1].arg < 0
    /\ light_calls[Len(light_calls)].op = "inherit"
    /\ lights["parent"].kind = "PointLight"
    /\ PointLightRadius(lights["parent"]) < 0
    /\ PointLightRadius(lights["child"]) = 0 - light_calls[1].arg

\* No inheritable property of the light was modified.
Unmodified(light) ==
    /\ ~light.base_light.base.name.modified
    /\ ~light.base_light.intensity.modified
    /\ IF light.kind = "PointLight"
       THEN ~light.radius.modified /\ ~light.shadow_bias.modified
       ELSE ~light.csm_options.modified

\* The values of the inheritable properties of a light, level by level.
BaseValues(light) == <<light.base_light.base.name.value>>
BaseLightValues(light) == <<light.base_light.intensity.value>>
OwnValues(light) ==
    IF light.kind = "PointLight"
    THEN <<light.radius.value, light.shadow_bias.value>>
    ELSE <<light.csm_options.value>>

\* C32: child.inherit(parent) returns Ok.  When the parent is a light of
\* the child's type and no inheritable property of the child was modified,
\* afterwards the child's inheritable properties equal the parent's at all
\* three levels (base node, base light, the light's own) and stay
\* unmodified; when the parent is of another type nothing changes; and the
\* parent is never changed.
C32_InheritCopiesUnmodified ==
    \A k \in 1 .. Len(light_calls) :
        light_calls[k].op = "inherit" =>
            LET c == light_calls[k]
                child == c.before["child"]
                parent == c.before["parent"]
                after == c.after["child"]
            IN  /\ c.ok
                /\ c.after["parent"] = parent
                /\ after.kind = child.kind
                /\ (parent.kind = child.kind /\ Unmodified(child)) =>
                       /\ BaseValues(after) = BaseValues(parent)
                       /\ BaseLightValues(after) = BaseLightValues(parent)
                       /\ OwnValues(after) = OwnValues(parent)
                       /\ Unmodified(after)
                /\ parent.kind /= child.kind => after = child

\* C32 witness: an unmodified point light inherited from a point light
\* whose name and radius differ from its own.
C32_Witness ==
    \E k \in 1 .. Len(light_calls) :
        /\ light_calls[k].op = "inherit"
        /\ light_calls[k].before["child"].kind = "PointLight"
        /\ light_calls[k].before["parent"].kind = "PointLight"
        /\ Unmodified(light_calls[k].before["child"])
        /\ BaseValues(light_calls[k].before["child"])
               /= BaseValues(light_calls[k].before["parent"])
        /\ OwnValues(light_calls[k].before["child"])
               /= OwnValues(light_calls[k].before["parent"])
        /\ OwnValues(light_calls[k].after["child"])
               = OwnValues(light_calls[k].before["parent"])

\* The same for a directional light, and an inherit from a parent of
\* another type.
C32_WitnessOther ==
    /\ \E k \in 1 .. Len(light_calls) :
           /\ light_calls[k].op = "inherit"
           /\ light_calls[k].before["child"].kind = "DirectionalLight"
           /\ light_calls[k].before["parent"].kind = "PointLight"

(***************************************************************************)
(* Claims about the Transition widget (SpecTransition).                    *)
(***************************************************************************)
FactorBefore(k) == transition_calls[k].before[1].activity_factor
FactorAfter(k) == transition_calls[k].after.activity_factor

\* Call k routed a TransitionMessage::Activate.
Activated(k) ==
    /\ transition_calls[k].op = "message"
    /\ transition_calls[k].message[1].data = "Activate"

\* What every reading of the claim shares: 0 at build, 1 after Activate,
\* update(dt) stores (activity_factor - dt).max(0.0), the factor stays
\* within [0, 1], only Activate raises it, and at 0 it stays at 0.
ActivityFrame ==
    /\ \A k \in 1 .. Len(transition_calls) :
           LET c == transition_calls[k]
           IN  /\ c.op = "build" => FactorAfter(k) = 0
               /\ Activated(k) => FactorAfter(k) = F32One
               /\ c.op = "update" =>
                      /\ FactorAfter(k) = SubMax0(FactorBefore(k), c.dt)
                      /\ FactorBefore(k) = 0 => FactorAfter(k) = 0
               /\ (c.op /= "build" /\ ~Activated(k)) => FactorAfter(k) <= FactorBefore(k)
               /\ (c.op = "message" /\ ~Activated(k)) => FactorAfter(k) = FactorBefore(k)
               /\ 0 <= FactorAfter(k) /\ FactorAfter(k) <= F32One
    /\ IsSome(transition) =>
           /\ 0 <= transition[1].activity_factor
           /\ transition[1].activity_factor <= F32One

\* Calls j+1 .. k are updates with one dt, made right after the Activate j.
FadeRun(j, k) ==
    /\ j < k
    /\ Activated(j)
    /\ \A i \in (j + 1) .. k :
           /\ transition_calls[i].op = "update"
           /\ transition_calls[i].dt = transition_calls[k].dt

\* The claim as stated: with any fixed dt > 0 the updates bring the factor
\* to 0, so no update with dt > 0 may leave a positive factor where it is.
C36_Original ==
    /\ ActivityFrame
    /\ \A k \in 1 .. Len(transition_calls) :
           (transition_calls[k].op = "update" /\ transition_calls[k].dt > 0
                /\ FactorBefore(k) > 0) => FactorAfter(k) < FactorBefore(k)

\* C36: activity_factor is 0 at build, 1 after Activate, and update(dt)
\* stores the f32 (activity_factor - dt).max(0.0); it stays within [0, 1],
\* only Activate raises it and at 0 it stays.  An update with dt above
\* 2^-25 lowers a positive factor, and updates with a fixed dt right after
\* an Activate have brought it to 0 once their dt add up to 1; an update
\* with 0 < dt <= 2^-25 right after an Activate leaves the factor at 1,
\* the difference being rounded back to 1.0.
C36_ActivityFades ==
    /\ ActivityFrame
    /\ \A k \in 1 .. Len(transition_calls) :
           transition_calls[k].op = "update" =>
               /\ (transition_calls[k].dt > 2 /\ FactorBefore(k) > 0) =>
                      FactorAfter(k) < FactorBefore(k)
               /\ (transition_calls[k].dt \in {1, 2} /\ FactorBefore(k) = F32One) =>
                      FactorAfter(k) = F32One
               /\ \A j \in 1 .. (k - 1) :
                      (FadeRun(j, k) /\ (k - j) * transition_calls[k].dt >= F32One) =>
                          FactorAfter(k) = 0

\* C36 witness: an Activate, then two updates with dt = 0.5 took the
\* factor from 1 to 0.
C36_Witness ==
    \E k \in 1 .. Len(transition_calls) :
        /\ k > 2
        /\ FadeRun(k - 2, k)
        /\ transition_calls[k].dt = F32Half
        /\ FactorBefore(k) = F32Half
        /\ FactorAfter(k) = 0

\* An update with a tiny dt left the factor at 1.
C36_WitnessTiny ==
    \E k \in 1 .. Len(transition_calls) :
        /\ transition_calls[k].op = "update"
        /\ transition_calls[k].dt = 1
        /\ FactorBefore(k) = F32One
        /\ FactorAfter(k) = F32One

(***************************************************************************)
(* Claims about listeners whose Receiver was dropped (SpecLogDrop).        *)
(***************************************************************************)
AddListenerCallsBefore(j) ==
    Cardinality({i \in 1 .. (j - 1) : log_calls[i].op = "add_listener"})

\* What holds of the calls made so far.
DropsLeaveLoggingIntact ==
    /\ \A j \in 1 .. Len(log_calls) :
           LET c == log_calls[j]
           IN  /\ (IsWriteCall(c) /\ AcceptedAt(j) /\ c.returned) =>
                      /\ \A l \in c.listeners \ disconnected : Deliveries(l, c) = 1
                      /\ \A l \in c.listeners : Deliveries(l, c) <= 1
                      /\ Outputs(stdout, c) = 1
                      /\ Outputs(log.file, c) = 1
               /\ threads[c.thread].pc = "idle" => c.returned
               /\ c.listeners \subseteq Range(log.listeners)
               /\ c.registered = log_calls[1].registered + AddListenerCallsBefore(j)
               /\ \A i \in 1 .. (j - 1) : log_calls[i].listeners \subseteq c.listeners
    /\ log_calls /= <<>> =>
           Len(log.listeners)
               = log_calls[1].registered + AddListenerCallsBefore(Len(log_calls) + 1)

\* What holds of every step: a listener whose Receiver was dropped receives
\* nothing more, its Receiver does not come back, and the list of listeners
\* keeps every entry it had.
DropsAreFinal ==
    /\ \A l \in disconnected : channels'[l] = channels[l]
    /\ disconnected \subseteq disconnected'
    /\ Len(log.listeners) <= Len(log'.listeners)
    /\ SubSeq(log'.listeners, 1, Len(log.listeners)) = log.listeners

\* C35: a listener whose Receiver was dropped does not disturb logging.
\* Of an accepted write that has returned, every listener registered at the
\* call whose Receiver is still there received the message once and no
\* listener received it twice; the message is once on the standard output
\* and once in the file; a thread outside the logger has had every call of
\* its own return.  A dropped listener receives nothing from then on.  No
\* call removes a listener: the list only grows, by the listener each
\* add_listener pushes.
C35_DroppedReceiverIgnored ==
    /\ []DropsLeaveLoggingIntact
    /\ [][DropsAreFinal]_vars

\* C35 witness: the first of two registered listeners had its Receiver
\* dropped before it was sent anything; an accepted write returned, the
\* second listener received the message, and it is on the standard output.
C35_Witness ==
    \E j \in 1 .. Len(log_calls) :
        /\ IsWriteCall(log_calls[j])
        /\ AcceptedAt(j)
        /\ log_calls[j].returned
        /\ log_calls[j].listeners = {1, 2}
        /\ disconnected = {1}
        /\ channels[1] = <<>>
        /\ Deliveries(2, log_calls[j]) = 1
        /\ Outputs(stdout, log_calls[j]) = 1

(***************************************************************************)
(* Claims about a whole history (SpecHistory).                             *)
(***************************************************************************)
\* A node without the order of its children.
Unordered(node) == [node EXCEPT !.children = Range(node.children)]

\* Two scenes show the same: the same live handles, and at every one of
\* them the same parent, the same children, the same fields, properties and
\* script.
SameScene(a, b) ==
    /\ LiveHandles(a.graph) = LiveHandles(b.graph)
    /\ \A h \in LiveHandles(a.graph) :
           /\ Unordered(Borrow(a.graph, h)) = Unordered(Borrow(b.graph, h))
           /\ Len(Borrow(a.graph, h).children) = Len(Borrow(b.graph, h).children)

KindsOfHistory == {commands[i].kind : i \in 1 .. Len(commands)}

\* C33: commands of the kinds Move, Link, AddNode, DeleteNode,
\* DeleteSubGraph and SetPropertyValue, each constructed on the scene as it
\* is (Move with the node's current position as old value) and executed
\* once in order, then reverted in reverse order without any finalize: no
\* revert fails, and once all are reverted the scene has the live handles it
\* started with and every node its parent, children, fields and properties.
C33_UndoRestoresScene ==
    last.op = "undo" =>
        /\ ~Panicked(scene)
        /\ top = 0 => SameScene(scene, tobs[1])

\* C33 witness: three commands of three kinds that changed the set of live
\* handles were all reverted.
C33_Witness ==
    /\ last.op = "undo"
    /\ top = 0
    /\ Len(commands) = 3
    /\ Cardinality(KindsOfHistory) = 3
    /\ "Link" \in KindsOfHistory
    /\ LiveHandles(tobs[2].graph) /= LiveHandles(tobs[1].graph)
    /\ SameScene(scene, tobs[1])

\* C34: after such a history was executed and then fully reverted,
\* executing the commands again in the original order fails nowhere (no
\* failed unwrap, no failed handle assertion, no access to a vacated
\* handle), and once all are executed again the scene is the one the first
\* execution ended with, every node at the same handle.
C34_RedoRepeatsScene ==
    last.op = "redo" =>
        /\ ~Panicked(scene)
        /\ top = Len(commands) => SameScene(scene, tobs[2])

\* C34 witness: a history that added a node and deleted another was undone
\* and redone.
C34_Witness ==
    /\ last.op = "redo"
    /\ top = Len(commands)
    /\ Len(commands) = 3
    /\ "AddNode" \in KindsOfHistory
    /\ KindsOfHistory \cap {"DeleteNode", "DeleteSubGraph"} /= {}
    /\ SameScene(scene, tobs[2])
    /\ ~SameScene(scene, tobs[1])

====
